---- MODULE Spec2Model ----
(***************************************************************************)
(* Stock Prediction AI dashboard (React single-page application).          *)
(*                                                                         *)
(* The model covers the App component state (App.tsx), the DataUpload      *)
(* component (DataUpload.tsx: CSV parsing, sample-data generation, the     *)
(* asynchronous FileReader uploads), the simulated training run, the layer *)
(* statuses of LayeredVisualization and the useMemo values of              *)
(* TechnicalIndicators, PerformanceMetrics and Recommendations.  The       *)
(* dragOver flag of DataUpload only selects a border colour and is left    *)
(* out.                                                                    *)
(*                                                                         *)
(* Text is a sequence of one-character strings, so that split, trim,       *)
(* toLowerCase, includes and parseFloat are computed character by          *)
(* character.  A JavaScript number is a record: [k |-> "fin", v |-> n]     *)
(* holds the finite value n / Scale, and NaN, +Infinity and -Infinity are  *)
(* the records NaN, PosInf and NegInf.                                     *)
(***************************************************************************)
EXTENDS Integers, Sequences, FiniteSets, TLC

VARIABLES
    stockData,          \* App: useState<StockData[]>([])
    predictions,        \* App: useState<ModelPrediction[]>([])
    isModelTraining,    \* App: useState(false)
    modelTrained,       \* App: useState(false)
    activeTab,          \* App: useState('upload')
    trainingProgress,   \* App: useState(0)
    layerOutputs,       \* App: useState<any>(null)
    trainStage,         \* simulateModelTraining: number of stages awaited so far
    trainData,          \* simulateModelTraining: the stockData its closure captured
    runs,               \* calls of simulateModelTraining that have not returned
    uploadStatus,       \* DataUpload: useState('idle')
    readers,            \* FileReaders whose readAsText has not completed yet
    started,            \* number of FileReaders created so far
    csvText,            \* parseCSVData harness: the argument
    rndSeed,            \* parseCSVData harness: the Math.random stream
    parsed,             \* parseCSVData harness: the value returned
    parseDone,          \* parseCSVData harness: TRUE once it has returned
    indicators,         \* TechnicalIndicators: the useMemo value
    metrics,            \* PerformanceMetrics: the useMemo value
    recommendation      \* Recommendations: the useMemo value

vars == <<stockData, predictions, isModelTraining, modelTrained, activeTab,
          trainingProgress, layerOutputs, trainStage, trainData, runs,
          uploadStatus, readers, started,
          csvText, rndSeed, parsed, parseDone, indicators, metrics,
          recommendation>>

appVars == <<stockData, predictions, isModelTraining, modelTrained, activeTab,
             trainingProgress, layerOutputs, trainStage, trainData,
             runs>>

uploadVars == <<uploadStatus, readers, started>>

memoVars == <<indicators, metrics, recommendation>>

harnessVars == <<csvText, rndSeed, parsed, parseDone, memoVars>>

---------------------------------------------------------------------------
(* JavaScript numbers *)

\* Finite numbers are held in units of 1/Scale (two decimals, as toFixed(2)).
Scale == 100

Num(n) == [k |-> "fin", v |-> n]
NaN == [k |-> "nan"]
PosInf == [k |-> "inf"]
NegInf == [k |-> "ninf"]

isNaN(x) == x.k = "nan"
isFinite(x) == x.k = "fin"

\* x || 0 on a number: NaN and 0 are falsy.
OrZero(x) == IF isNaN(x) \/ (isFinite(x) /\ x.v = 0) THEN Num(0) ELSE x

\* x < 0 on numbers (NaN compares false with everything).
IsNegative(x) == \/ x.k = "ninf"
                 \/ (isFinite(x) /\ x.v < 0)

---------------------------------------------------------------------------
(* Strings *)

Undefined == <<"undefined">>

UndefinedText == <<"u", "n", "d", "e", "f", "i", "n", "e", "d">>

\* ToString(value) for a string or undefined.
StringOf(s) == IF s = Undefined THEN UndefinedText ELSE s

WhiteSpace == {" ", "\t", "\n", "\r"}

Digits == <<"0", "1", "2", "3", "4", "5", "6", "7", "8", "9">>

IsDigit(c) == \E d \in 1..10 : Digits[d] = c

DigitVal(c) == (CHOOSE d \in 1..10 : Digits[d] = c) - 1

UpperCase == <<"A", "B", "C", "D", "E", "F", "G", "H", "I", "J", "K", "L", "M",
               "N", "O", "P", "Q", "R", "S", "T", "U", "V", "W", "X", "Y", "Z">>

LowerCase == <<"a", "b", "c", "d", "e", "f", "g", "h", "i", "j", "k", "l", "m",
               "n", "o", "p", "q", "r", "s", "t", "u", "v", "w", "x", "y", "z">>

\* The characters of the model in UTF-16 code unit order.
CodeOrder == <<"\t", "\n", "\r", " ", "+", ",", "-", ".", "/">> \o Digits
             \o <<":">> \o UpperCase \o <<"_">> \o LowerCase

CharCode(c) == CHOOSE i \in 1..Len(CodeOrder) : CodeOrder[i] = c

LowerChar(c) == IF \E i \in 1..26 : UpperCase[i] = c
                THEN LowerCase[CHOOSE i \in 1..26 : UpperCase[i] = c]
                ELSE c

toLowerCase(s) == [i \in 1..Len(s) |-> LowerChar(s[i])]

\* First index >= i of s that is not white space (Len(s) + 1 if none).
RECURSIVE SkipWhiteSpace(_, _)
SkipWhiteSpace(s, i) ==
    IF i <= Len(s) /\ s[i] \in WhiteSpace THEN SkipWhiteSpace(s, i + 1) ELSE i

\* Last index <= j of s that is not white space (0 if none).
RECURSIVE SkipWhiteSpaceBack(_, _)
SkipWhiteSpaceBack(s, j) ==
    IF j >= 1 /\ s[j] \in WhiteSpace THEN SkipWhiteSpaceBack(s, j - 1) ELSE j

\* String.prototype.trim
trim(s) == LET a == SkipWhiteSpace(s, 1)
               b == SkipWhiteSpaceBack(s, Len(s))
           IN  IF a > b THEN <<>> ELSE SubSeq(s, a, b)

\* First index >= i of s holding the character sep (Len(s) + 1 if none).
RECURSIVE FindChar(_, _, _)
FindChar(s, sep, i) ==
    IF i <= Len(s) /\ s[i] # sep THEN FindChar(s, sep, i + 1) ELSE i

\* String.prototype.split with a one-character separator, from index i on.
RECURSIVE SplitFrom(_, _, _)
SplitFrom(s, sep, i) ==
    LET j == FindChar(s, sep, i)
    IN  IF j > Len(s) THEN <<SubSeq(s, i, Len(s))>>
        ELSE <<SubSeq(s, i, j - 1)>> \o SplitFrom(s, sep, j + 1)

split(s, sep) == SplitFrom(s, sep, 1)

StartsWithAt(s, sub, i) ==
    /\ i + Len(sub) - 1 <= Len(s)
    /\ \A k \in 1..Len(sub) : s[i + k - 1] = sub[k]

\* String.prototype.includes
includes(s, sub) == \E i \in 1..(Len(s) + 1) : StartsWithAt(s, sub, i)

\* a < b on strings: comparison by code units, a proper prefix is smaller.
RECURSIVE StrLess(_, _)
StrLess(a, b) ==
    IF b = <<>> THEN FALSE
    ELSE IF a = <<>> THEN TRUE
    ELSE IF a[1] # b[1] THEN CharCode(a[1]) < CharCode(b[1])
    ELSE StrLess(Tail(a), Tail(b))

\* Array.prototype.findIndex, given the outcome of the test on each element:
\* zero-based index of the first element that passes, -1 if none.
FindIndex(tests) ==
    IF \E i \in 1..Len(tests) : tests[i]
    THEN (CHOOSE i \in 1..Len(tests) :
              tests[i] /\ \A j \in 1..(i - 1) : ~tests[j]) - 1
    ELSE -1

\* arr[idx] for a zero-based idx: undefined beyond the end of the array.
At(arr, idx) == IF idx >= 0 /\ idx < Len(arr) THEN arr[idx + 1] ELSE Undefined

---------------------------------------------------------------------------
(* parseFloat *)

\* First index >= i of s that is not a decimal digit (Len(s) + 1 if none).
RECURSIVE DigitsEnd(_, _)
DigitsEnd(s, i) ==
    IF i <= Len(s) /\ IsDigit(s[i]) THEN DigitsEnd(s, i + 1) ELSE i

\* The value of the decimal digits s[a..b] (0 for an empty range).
RECURSIVE IntOf(_, _, _)
IntOf(s, a, b) ==
    IF a > b THEN 0 ELSE IntOf(s, a, b - 1) * 10 + DigitVal(s[b])

RECURSIVE Pow10(_)
Pow10(n) == IF n <= 0 THEN 1 ELSE 10 * Pow10(n - 1)

InfinityText == <<"I", "n", "f", "i", "n", "i", "t", "y">>

\* Largest decimal exponent of a finite double (Number.MAX_VALUE is 1.79e308).
MaxDecimalExponent == 308

\* The number mant * 10^expo, mant in units of 1/Scale with nInt digits
\* before the decimal point.
ScaledBy(mant, nInt, expo) ==
    IF mant = 0 \/ expo = 0 THEN Num(mant)
    ELSE IF expo < 0 THEN Num(mant \div Pow10(0 - expo))
    ELSE IF nInt + expo > MaxDecimalExponent + 1 THEN PosInf
    ELSE Num(mant * Pow10(expo))

\* The digit s[i] of a fraction that ends before index i2 (0 beyond it).
FracDigit(s, i, i2) == IF i < i2 THEN DigitVal(s[i]) ELSE 0

\* Integer digits s[p..i1-1] and fraction digits s[i1+1..i2-1], in units of
\* 1/Scale; fraction digits beyond 1/Scale are cut.
Mantissa(s, p, i1, i2) ==
    IntOf(s, p, i1 - 1) * Scale + FracDigit(s, i1 + 1, i2) * (Scale \div 10)
        + FracDigit(s, i1 + 2, i2) * (Scale \div 100)

\* The exponent whose digits start at index ep (0 if there is no digit).
ExponentDigits(s, ep, sign) ==
    IF DigitsEnd(s, ep) > ep
    THEN sign * IntOf(s, ep, DigitsEnd(s, ep) - 1)
    ELSE 0

\* The value of the ExponentPart at index e of s (0 if there is none).
ExponentAt(s, e) ==
    IF e <= Len(s) /\ s[e] \in {"e", "E"}
    THEN ExponentDigits(s,
             IF e + 1 <= Len(s) /\ s[e + 1] \in {"+", "-"} THEN e + 2 ELSE e + 1,
             IF e + 1 <= Len(s) /\ s[e + 1] = "-" THEN -1 ELSE 1)
    ELSE 0

\* The literal with integer digits s[p..i1-1] and a mantissa ending before
\* i2: NaN if it has no digit at all.
ParseDigits(s, p, i1, i2) ==
    IF i1 = p /\ i2 <= i1 + 1 THEN NaN
    ELSE ScaledBy(Mantissa(s, p, i1, i2), i1 - p, ExponentAt(s, i2))

\* The end of the mantissa whose integer digits end before i1.
MantissaEnd(s, i1) ==
    IF i1 <= Len(s) /\ s[i1] = "." THEN DigitsEnd(s, i1 + 1) ELSE i1

\* StrUnsignedDecimalLiteral at index p of s.
ParseUnsigned(s, p) ==
    IF StartsWithAt(s, InfinityText, p) THEN PosInf
    ELSE ParseDigits(s, p, DigitsEnd(s, p), MantissaEnd(s, DigitsEnd(s, p)))

Negate(x) ==
    IF isFinite(x) THEN Num(0 - x.v) ELSE IF isNaN(x) THEN x ELSE NegInf

\* StrDecimalLiteral at index p0 of s.
ParseSigned(s, p0) ==
    IF p0 <= Len(s) /\ s[p0] = "-" THEN Negate(ParseUnsigned(s, p0 + 1))
    ELSE ParseUnsigned(s, IF p0 <= Len(s) /\ s[p0] = "+" THEN p0 + 1 ELSE p0)

\* parseFloat(value): the longest prefix of the text, leading white space
\* skipped, that is a StrDecimalLiteral (a sign, then Infinity or digits with
\* an optional fraction and exponent); NaN if there is none.
parseFloat(x) == ParseSigned(StringOf(x), SkipWhiteSpace(StringOf(x), 1))

---------------------------------------------------------------------------
(* Math.random *)

\* Math.random() returns a value in [0, 1), held in units of 1/RandomUnit.
RandomUnit == 1000

\* The values a call of Math.random() takes in the model.
RandomDraws == <<0, 999>>

\* The streams of Math.random() values: stream seed returns
\* Random(seed, n) at its n-th call.
Seeds == 0..(Len(RandomDraws) - 1)

Random(seed, n) == RandomDraws[((seed + n) % Len(RandomDraws)) + 1]

\* Math.floor(Math.random() * range) for the draw r.
FloorRandom(r, range) == Num(((r * range) \div RandomUnit) * Scale)

---------------------------------------------------------------------------
(* DataUpload.parseCSVData *)

MapTrim(arr) == [i \in 1..Len(arr) |-> trim(arr[i])]

IsDateHeader(h) == includes(h, <<"d", "a", "t", "e">>)
                   \/ includes(h, <<"t", "i", "m", "e">>)
IsOpenHeader(h) == includes(h, <<"o", "p", "e", "n">>)
IsHighHeader(h) == includes(h, <<"h", "i", "g", "h">>)
IsLowHeader(h) == includes(h, <<"l", "o", "w">>)
IsCloseHeader(h) == includes(h, <<"c", "l", "o", "s", "e">>)
                    \/ includes(h, <<"p", "r", "i", "c", "e">>)
IsVolumeHeader(h) == includes(h, <<"v", "o", "l", "u", "m", "e">>)

\* csvText.trim().split('\n')
CsvLines(text) == split(trim(text), "\n")

\* lines[0].toLowerCase().split(',').map(h => h.trim())
CsvHeaders(lines) == MapTrim(split(toLowerCase(lines[1]), ","))

\* lines[i].split(',').map(v => v.trim()), line i counted from 1
CsvValues(lines, i) == MapTrim(split(lines[i], ","))

\* PriceField with 0 as the default of an absent column as well.
PriceField_ZeroDefault(values, idx, closeIdx) ==
    IF idx >= 0 THEN OrZero(parseFloat(At(values, idx))) ELSE Num(0)

\* open, high and low: the column's field || 0, or the close field when the
\* header has no such column.
PriceField(values, idx, closeIdx) ==
    IF idx >= 0 THEN OrZero(parseFloat(At(values, idx)))
    ELSE parseFloat(At(values, closeIdx))

VolumeField(values, idx, r) ==
    IF idx >= 0 THEN OrZero(parseFloat(At(values, idx)))
    ELSE FloorRandom(r, 1000000)

\* HeaderAccepted with || in place of &&.
HeaderAccepted_Either(headers) ==
    \/ FindIndex([c \in 1..Len(headers) |-> IsDateHeader(headers[c])]) >= 0
    \/ FindIndex([c \in 1..Len(headers) |-> IsCloseHeader(headers[c])]) >= 0

\* if (dateIdx >= 0 && closeIdx >= 0)
HeaderAccepted(headers) ==
    /\ FindIndex([c \in 1..Len(headers) |-> IsDateHeader(headers[c])]) >= 0
    /\ FindIndex([c \in 1..Len(headers) |-> IsCloseHeader(headers[c])]) >= 0

\* The record pushed for a line with the given values, r being the value
\* of Math.random().
CsvRecord(headers, values, r) ==
    LET dateIdx == FindIndex([c \in 1..Len(headers) |-> IsDateHeader(headers[c])])
        openIdx == FindIndex([c \in 1..Len(headers) |-> IsOpenHeader(headers[c])])
        highIdx == FindIndex([c \in 1..Len(headers) |-> IsHighHeader(headers[c])])
        lowIdx == FindIndex([c \in 1..Len(headers) |-> IsLowHeader(headers[c])])
        closeIdx == FindIndex([c \in 1..Len(headers) |-> IsCloseHeader(headers[c])])
        volumeIdx == FindIndex([c \in 1..Len(headers) |-> IsVolumeHeader(headers[c])])
    IN  [date |-> At(values, dateIdx),
         open |-> PriceField(values, openIdx, closeIdx),
         high |-> PriceField(values, highIdx, closeIdx),
         low |-> PriceField(values, lowIdx, closeIdx),
         close |-> parseFloat(At(values, closeIdx)),
         volume |-> VolumeField(values, volumeIdx, r)]

\* The records pushed by the loop from line i on (the header is line 1), in
\* line order; seed is the Math.random stream.
RECURSIVE CsvPushed(_, _, _, _)
CsvPushed(lines, headers, i, seed) ==
    IF i > Len(lines) THEN <<>>
    ELSE (IF HeaderAccepted(headers)
          THEN <<CsvRecord(headers, CsvValues(lines, i), Random(seed, i - 2))>>
          ELSE <<>>)
         \o CsvPushed(lines, headers, i + 1, seed)

\* KeepsRecord without the isNaN test.
KeepsRecord_All(d) == TRUE

\* data.filter(d => !isNaN(d.close))
KeepsRecord(d) == ~isNaN(d.close)

parseCSVData(text, seed) ==
    LET lines == CsvLines(text)
        headers == CsvHeaders(lines)
    IN  SelectSeq(CsvPushed(lines, headers, 2, seed), KeepsRecord)

---------------------------------------------------------------------------
(* CSV texts *)

\* HeaderFull: "Date,Open,High,Low,Close,Volume" - the header of the format guide
HeaderFull ==
    <<"D", "a", "t", "e", ",", "O", "p", "e", "n", ",", "H", "i", "g", "h",
      ",", "L", "o", "w", ",", "C", "l", "o", "s", "e", ",", "V", "o", "l",
      "u", "m", "e">>

\* HeaderDateClose: "date,close" - only the two required columns
HeaderDateClose ==
    <<"d", "a", "t", "e", ",", "c", "l", "o", "s", "e">>

\* HeaderTimePrice: "Timestamp, Adj Price ,OPEN" - time and price columns, an open column, spaces and capitals
HeaderTimePrice ==
    <<"T", "i", "m", "e", "s", "t", "a", "m", "p", ",", " ", "A", "d", "j",
      " ", "P", "r", "i", "c", "e", " ", ",", "O", "P", "E", "N">>

\* HeaderPriceClose: "Price,Date,Close,Time,Low" - two close-like and two date-like columns, a low column
HeaderPriceClose ==
    <<"P", "r", "i", "c", "e", ",", "D", "a", "t", "e", ",", "C", "l", "o",
      "s", "e", ",", "T", "i", "m", "e", ",", "L", "o", "w">>

\* HeaderNoDate: "Open,High,Close" - no date or time column
HeaderNoDate ==
    <<"O", "p", "e", "n", ",", "H", "i", "g", "h", ",", "C", "l", "o", "s",
      "e">>

\* HeaderNoClose: "Date,Open,Volume" - no close or price column
HeaderNoClose ==
    <<"D", "a", "t", "e", ",", "O", "p", "e", "n", ",", "V", "o", "l", "u",
      "m", "e">>

\* RowGuide1: "2024-01-01,150,155,149,152.5,1000000" - first row of the documented example
RowGuide1 ==
    <<"2", "0", "2", "4", "-", "0", "1", "-", "0", "1", ",", "1", "5", "0",
      ",", "1", "5", "5", ",", "1", "4", "9", ",", "1", "5", "2", ".", "5",
      ",", "1", "0", "0", "0", "0", "0", "0">>

\* RowGuide2: "2024-01-02,152.5,156,151,154.25,1200000" - second row of the documented example
RowGuide2 ==
    <<"2", "0", "2", "4", "-", "0", "1", "-", "0", "2", ",", "1", "5", "2",
      ".", "5", ",", "1", "5", "6", ",", "1", "5", "1", ",", "1", "5", "4",
      ".", "2", "5", ",", "1", "2", "0", "0", "0", "0", "0">>

\* RowBadClose: "2024-01-03,151,n/a,0,abc," - close, high and volume unparsable, low zero
RowBadClose ==
    <<"2", "0", "2", "4", "-", "0", "1", "-", "0", "3", ",", "1", "5", "1",
      ",", "n", "/", "a", ",", "0", ",", "a", "b", "c", ",">>

\* RowBadOpen: "2024-01-04,x,160,,153,12" - open and low unparsable
RowBadOpen ==
    <<"2", "0", "2", "4", "-", "0", "1", "-", "0", "4", ",", "x", ",", "1",
      "6", "0", ",", ",", "1", "5", "3", ",", "1", "2">>

\* RowNegative: "2024-01-05,-5,2023-12-30,-7.5,-5,3" - negative numbers, a date in the third field
RowNegative ==
    <<"2", "0", "2", "4", "-", "0", "1", "-", "0", "5", ",", "-", "5", ",",
      "2", "0", "2", "3", "-", "1", "2", "-", "3", "0", ",", "-", "7", ".",
      "5", ",", "-", "5", ",", "3">>

\* RowInfinity: "2023-12-31,Infinity,1e999,9,Infinity,1" - infinite values, an earlier date
RowInfinity ==
    <<"2", "0", "2", "3", "-", "1", "2", "-", "3", "1", ",", "I", "n", "f",
      "i", "n", "i", "t", "y", ",", "1", "e", "9", "9", "9", ",", "9", ",",
      "I", "n", "f", "i", "n", "i", "t", "y", ",", "1">>

\* RowShort: " 7.25 ,2024-01-06" - two fields only, number first
RowShort ==
    <<" ", "7", ".", "2", "5", " ", ",", "2", "0", "2", "4", "-", "0", "1",
      "-", "0", "6">>

\* RowBlank: the empty string - an empty line
RowBlank ==
    <<>>

Headers == {HeaderFull, HeaderDateClose, HeaderTimePrice, HeaderPriceClose,
            HeaderNoDate, HeaderNoClose}

Rows == {RowGuide1, RowGuide2, RowBadClose, RowBadOpen, RowNegative,
         RowInfinity, RowShort, RowBlank}

LineEnds == {<<"\n">>, <<"\r", "\n">>}

\* Largest number of data rows of a CSV text given to parseCSVData.
MaxRows == 2

RECURSIVE JoinLines(_, _)
JoinLines(ls, eol) ==
    IF ls = <<>> THEN <<>> ELSE ls[1] \o eol \o JoinLines(Tail(ls), eol)

RowSeqs(n) == UNION {[1..k -> Rows] : k \in 0..n}

\* A header line and up to MaxRows data rows, every line ended by eol.
CsvTexts == {JoinLines(<<h>> \o rs, eol) :
                h \in Headers, rs \in RowSeqs(MaxRows), eol \in LineEnds}

---------------------------------------------------------------------------
(* Math.sin, dates *)

\* 10000 * Math.sin(x / 1000) for x >= 0 (x in units of 0.001 rad), by
\* Bhaskara's rational approximation 16p / (5 pi^2 - 4p), p = y (pi - y),
\* on each half period (absolute error below 0.002).
SinE4(x) ==
    LET y == x % 6283
        neg == y > 3142
        z == IF neg THEN y - 3142 ELSE y
        p == z * (3142 - z)
        b == (16 * p * 50) \div ((5 * 3142 * 3142 - 4 * p) \div 200)
    IN  IF neg THEN 0 - b ELSE b

\* Days of the months of 2024.
MonthDays == <<31, 29, 31, 30, 31, 30, 31, 31, 30, 31, 30, 31>>

\* The month (1..12) holding day n (n >= 0 days after the first of month m).
RECURSIVE MonthOf(_, _)
MonthOf(n, m) == IF n < MonthDays[m] THEN m ELSE MonthOf(n - MonthDays[m], m + 1)

RECURSIVE DayOf(_, _)
DayOf(n, m) == IF n < MonthDays[m] THEN n + 1 ELSE DayOf(n - MonthDays[m], m + 1)

TwoDigits(n) == <<Digits[(n \div 10) + 1], Digits[(n % 10) + 1]>>

\* date.toISOString().split('T')[0] for the date i days after 2024-01-01.
IsoDate(i) == <<"2", "0", "2", "4", "-">> \o TwoDigits(MonthOf(i, 1))
              \o <<"-">> \o TwoDigits(DayOf(i, 1))

---------------------------------------------------------------------------
(* DataUpload.generateSampleData *)

\* for (let i = 0; i < 252; i++)
SampleDays == 252

\* parseFloat(x.toFixed(2)) for a positive x held in units of 1/10000.
ToFixed2(x4) == Num(((x4 + 50) \div 100) * (Scale \div 100))

Max(a, b) == IF a >= b THEN a ELSE b
Min(a, b) == IF a <= b THEN a ELSE b

\* The record of day i (0-based); the loop body calls Math.random five times.
\* Prices are computed in units of 1/10000.
SampleRecord(i, seed) ==
    LET r1 == Random(seed, 5 * i)
        r2 == Random(seed, 5 * i + 1)
        r3 == Random(seed, 5 * i + 2)
        r4 == Random(seed, 5 * i + 3)
        r5 == Random(seed, 5 * i + 4)
        trend == SinE4(i * 20) * 10
        noise == (r1 - 500) * 50
        close == 150 * 10000 + trend + noise + i * 1000
        open == close + (close * (r2 - 500)) \div 50000
        high == Max(open, close) + (Max(open, close) * r3) \div 50000
        low == Min(open, close) - (Min(open, close) * r4) \div 50000
    IN  [date |-> IsoDate(i),
         open |-> ToFixed2(open),
         high |-> ToFixed2(high),
         low |-> ToFixed2(low),
         close |-> ToFixed2(close),
         volume |-> Num(FloorRandom(r5, 2000000).v + 500000 * Scale)]

\* The array generateSampleData builds, for each Math.random stream.
SampleTable ==
    [seed \in Seeds |-> [j \in 1..SampleDays |-> SampleRecord(j - 1, seed)]]

sampleData(seed) == SampleTable[seed]

---------------------------------------------------------------------------
(* Initial state *)

tabs == {"upload", "model", "layers", "predictions", "indicators",
         "metrics", "recommendations"}

\* The tabs the user clicks in the model.
ClickedTabs == {"upload", "layers"}

\* layerOutputs before the first training run finishes.
Null == [null |-> TRUE]

\* indicators and metrics while their component has not been rendered.
NotRendered == [rendered |-> FALSE]

AppInit ==
    /\ stockData = <<>>
    /\ predictions = <<>>
    /\ isModelTraining = FALSE
    /\ modelTrained = FALSE
    /\ activeTab = "upload"
    /\ trainingProgress = 0
    /\ layerOutputs = Null
    /\ trainStage = 0
    /\ trainData = <<>>
    /\ runs = 0
    /\ uploadStatus = "idle"
    /\ readers = <<>>
    /\ started = 0

---------------------------------------------------------------------------
(* parseCSVData applied to one CSV text *)

ParseInit ==
    /\ AppInit
    /\ csvText \in CsvTexts
    /\ rndSeed \in Seeds
    /\ parsed = <<>>
    /\ parseDone = FALSE
    /\ indicators = NotRendered
    /\ metrics = NotRendered
    /\ recommendation = NotRendered

ParseCSV ==
    /\ ~parseDone
    /\ parsed' = parseCSVData(csvText, rndSeed)
    /\ parseDone' = TRUE
    /\ UNCHANGED <<appVars, uploadVars, csvText, rndSeed, memoVars>>

ParseNext == ParseCSV

SpecParse == ParseInit /\ [][ParseNext]_vars

---------------------------------------------------------------------------
(* Uploaded files *)

\* The format guide's example: two records in date order.
FileGuide == JoinLines(<<HeaderFull, RowGuide1, RowGuide2>>, <<"\n">>)

\* Rows that are not in date order, one of them with a close of -5.
FileUnchecked ==
    JoinLines(<<HeaderFull, RowGuide2, RowNegative, RowGuide1>>, <<"\n">>)

\* A header without a close column: no record is parsed.
FileNoClose == JoinLines(<<HeaderNoClose, RowGuide1>>, <<"\n">>)

UploadTexts == {FileGuide, FileUnchecked, FileNoClose}

\* A File: csv is file.type === 'text/csv' || file.name.endsWith('.csv').
CsvFiles == {[csv |-> TRUE, text |-> t] : t \in UploadTexts}

OtherFile == [csv |-> FALSE, text |-> FileGuide]

Files == CsvFiles \cup {OtherFile}

\* The file lists of a drop event: no file, one file, or a file that is
\* not a CSV file followed by one that is.
DropLists == {<<>>} \cup {<<f>> : f \in Files}
             \cup {<<OtherFile, g>> : g \in CsvFiles}

\* The Math.random streams of the upload tab's handlers (generateSampleData
\* and the parseCSVData of an onload) in the model.  Every uploaded text has
\* a volume column, so parseCSVData draws no value that reaches its result.
SampleSeeds == {0}

\* What parseCSVData returns for each uploaded text and Math.random stream.
UploadTable ==
    [text \in UploadTexts |-> [seed \in Seeds |-> parseCSVData(text, seed)]]

\* Number of FileReaders created in a run of the model.
MaxUploads == 2

---------------------------------------------------------------------------
(* App: tabs *)

\* onClick={() => setActiveTab(tab.id)}.  DataUpload is rendered only while
\* activeTab is 'upload': leaving that tab unmounts it, so its uploadStatus
\* is lost (a later mount starts from 'idle') and the setUploadStatus of the
\* FileReaders it created has no effect any more.
SetActiveTab(t) ==
    /\ activeTab' = t
    /\ IF activeTab = "upload" /\ t # "upload"
       THEN /\ uploadStatus' = "idle"
            /\ readers' = [k \in 1..Len(readers) |->
                              [readers[k] EXCEPT !.live = FALSE]]
       ELSE UNCHANGED <<uploadStatus, readers>>
    /\ UNCHANGED <<stockData, predictions, isModelTraining, modelTrained,
                   trainingProgress, layerOutputs, trainStage, trainData, runs,
                   started, harnessVars>>

---------------------------------------------------------------------------
(* DataUpload: uploads *)

\* handleFileUpload up to reader.readAsText(file): a new FileReader is in
\* flight.
StartRead(file) ==
    /\ started < MaxUploads
    /\ started' = started + 1
    /\ readers' = Append(readers, [id |-> started + 1, text |-> file.text,
                                   live |-> TRUE])

\* <input type="file" onChange={handleFileInput}>
HandleFileInput(file) ==
    /\ activeTab = "upload"
    /\ StartRead(file)
    /\ UNCHANGED <<appVars, uploadStatus, harnessVars>>

\* files.find(file => file.type === 'text/csv' || file.name.endsWith('.csv'))
HasCsvFile(files) == \E i \in 1..Len(files) : files[i].csv

FirstCsvFile(files) ==
    files[CHOOSE i \in 1..Len(files) :
              files[i].csv /\ \A j \in 1..(i - 1) : ~files[j].csv]

\* onDrop={handleDrop}
HandleDrop(files) ==
    /\ activeTab = "upload"
    /\ IF HasCsvFile(files)
       THEN StartRead(FirstCsvFile(files))
       ELSE UNCHANGED <<readers, started>>
    /\ UNCHANGED <<appVars, uploadStatus, harnessVars>>

RemoveAt(q, k) == SubSeq(q, 1, k - 1) \o SubSeq(q, k + 1, Len(q))

\* ReaderOnload with a guard against stale reads: only the FileReader created
\* last may call onDataUpload.
ReaderOnload_LatestOnly(k, seed) ==
    LET reader == readers[k]
        data == UploadTable[reader.text][seed]
    IN  /\ readers' = RemoveAt(readers, k)
        /\ IF Len(data) > 0 /\ reader.id = started
           THEN /\ stockData' = data
                /\ uploadStatus' = IF reader.live THEN "success" ELSE uploadStatus
           ELSE /\ stockData' = stockData
                /\ uploadStatus' = IF reader.live THEN "error" ELSE uploadStatus
        /\ UNCHANGED <<predictions, isModelTraining, modelTrained, activeTab,
                       trainingProgress, layerOutputs, trainStage, trainData, runs,
                       started, harnessVars>>

\* reader.onload of the k-th FileReader in flight; seed is the Math.random
\* stream parseCSVData draws from.
ReaderOnload(k, seed) ==
    LET reader == readers[k]
        data == UploadTable[reader.text][seed]
    IN  /\ readers' = RemoveAt(readers, k)
        /\ IF Len(data) > 0
           THEN /\ stockData' = data
                /\ uploadStatus' = IF reader.live THEN "success" ELSE uploadStatus
           ELSE /\ stockData' = stockData
                /\ uploadStatus' = IF reader.live THEN "error" ELSE uploadStatus
        /\ UNCHANGED <<predictions, isModelTraining, modelTrained, activeTab,
                       trainingProgress, layerOutputs, trainStage, trainData, runs,
                       started, harnessVars>>

\* GenerateSampleData that also discards the trained model.
GenerateSampleData_ResetsModel(seed) ==
    /\ activeTab = "upload"
    /\ stockData' = sampleData(seed)
    /\ uploadStatus' = "success"
    /\ predictions' = <<>>
    /\ modelTrained' = FALSE
    /\ UNCHANGED <<isModelTraining, activeTab, trainingProgress, layerOutputs,
                   trainStage, trainData, runs, readers, started, harnessVars>>

\* onClick={generateSampleData}
GenerateSampleData(seed) ==
    /\ activeTab = "upload"
    /\ stockData' = sampleData(seed)
    /\ uploadStatus' = "success"
    /\ UNCHANGED <<predictions, isModelTraining, modelTrained, activeTab,
                   trainingProgress, layerOutputs, trainStage, trainData, runs,
                   readers, started, harnessVars>>

---------------------------------------------------------------------------
(* App.simulateModelTraining *)

\* stages[k].progress
StageProgress == <<20, 40, 60, 80, 90, 100>>

\* Array.prototype.slice(-n)
SliceLast(arr, n) == SubSeq(arr, Max(1, Len(arr) - n + 1), Len(arr))

\* x * m for a number x and a positive multiplier m held in units of
\* 1/10000; the product is cut to 1/Scale.
TimesE4(x, m4) ==
    IF isFinite(x) THEN Num(x.v + (x.v * (m4 - 10000)) \div 10000) ELSE x

\* MockPrediction with a confidence of 0.75 + Math.random() * 2.
MockPrediction_WideConfidence(data, index, seed) ==
    LET trendFactorE4 == (SinE4(index * 300) * 2) \div 100
        randomFactorE4 == ((Random(seed, 2 * index) - 500) * 80) \div 100
        predictionMultiplier == 10000 + trendFactorE4 + randomFactorE4
    IN  [date |-> data.date,
         actual |-> data.close,
         predicted |-> TimesE4(data.close, predictionMultiplier),
         confidence |-> Num(((750 + (Random(seed, 2 * index + 1) * 2000)
                                       \div RandomUnit) * Scale) \div 1000)]

\* The element of mockPredictions at the zero-based index; each element
\* calls Math.random twice.
MockPrediction(data, index, seed) ==
    LET trendFactorE4 == (SinE4(index * 300) * 2) \div 100
        randomFactorE4 == ((Random(seed, 2 * index) - 500) * 80) \div 100
        predictionMultiplier == 10000 + trendFactorE4 + randomFactorE4
    IN  [date |-> data.date,
         actual |-> data.close,
         predicted |-> TimesE4(data.close, predictionMultiplier),
         confidence |-> Num(((750 + (Random(seed, 2 * index + 1) * 200)
                                       \div RandomUnit) * Scale) \div 1000)]

\* mockPredictions over every record instead of the last 30.
mockPredictions_AllRecords(data, seed) ==
    [j \in 1..Len(data) |-> MockPrediction(data[j], j - 1, seed)]

\* stockData.slice(-30).map((data, index) => ...)
mockPredictions(data, seed) ==
    LET last == SliceLast(data, 30)
    IN  [j \in 1..Len(last) |-> MockPrediction(last[j], j - 1, seed)]

\* Math.random() * 2 - 1 for the draw r.
Activation(r) == Num(((2 * r - RandomUnit) * Scale) \div RandomUnit)

LayerOutputs(data, preds, seed) ==
    LET last == SliceLast(data, 10)
        base == 2 * Len(preds)
    IN  [inputLayer |-> [j \in 1..Len(last) |->
                            [features |-> <<last[j].open, last[j].high,
                                            last[j].low, last[j].close,
                                            last[j].volume>>,
                             processed |-> TRUE]],
         lstmLayer |-> [j \in 1..128 |-> Activation(Random(seed, base + j - 1))],
         gruLayer |-> [j \in 1..64 |->
                          Activation(Random(seed, base + 128 + j - 1))],
         outputLayer |-> IF preds = <<>> THEN Num(0)
                         ELSE OrZero(preds[Len(preds)].predicted)]

\* StartTraining with a button that is not disabled during a run.
StartTraining_NotDisabled ==
    /\ Len(stockData) > 0
    /\ isModelTraining' = TRUE
    /\ trainingProgress' = 0
    /\ trainStage' = 0
    /\ trainData' = stockData
    /\ runs' = runs + 1
    /\ UNCHANGED <<stockData, predictions, modelTrained, activeTab,
                   layerOutputs, uploadVars, harnessVars>>

\* onClick={simulateModelTraining}, up to the first await.  The button is
\* rendered while stockData.length > 0 and disabled while isModelTraining.
\* The async function keeps the stockData of the render it was created in.
StartTraining ==
    /\ Len(stockData) > 0
    /\ ~isModelTraining
    /\ isModelTraining' = TRUE
    /\ trainingProgress' = 0
    /\ trainStage' = 0
    /\ trainData' = stockData
    /\ runs' = runs + 1
    /\ UNCHANGED <<stockData, predictions, modelTrained, activeTab,
                   layerOutputs, uploadVars, harnessVars>>

\* TrainingStage that is cancelled while another tab than 'upload' is shown.
TrainingStage_StopsOffUpload ==
    /\ isModelTraining
    /\ activeTab = "upload"
    /\ trainStage < Len(StageProgress) - 1
    /\ trainStage' = trainStage + 1
    /\ trainingProgress' = StageProgress[trainStage + 1]
    /\ UNCHANGED <<stockData, predictions, isModelTraining, modelTrained,
                   activeTab, layerOutputs, trainData, runs, uploadVars,
                   harnessVars>>

\* The timer of one of the first five stages fires: setTrainingProgress,
\* then the next await.
TrainingStage ==
    /\ isModelTraining
    /\ trainStage < Len(StageProgress) - 1
    /\ trainStage' = trainStage + 1
    /\ trainingProgress' = StageProgress[trainStage + 1]
    /\ UNCHANGED <<stockData, predictions, isModelTraining, modelTrained,
                   activeTab, layerOutputs, trainData, runs, uploadVars,
                   harnessVars>>

\* FinishTraining that also writes the stockData of its closure back.
FinishTraining_WritesData(seed) ==
    /\ isModelTraining
    /\ trainStage = Len(StageProgress) - 1
    /\ predictions' = mockPredictions(trainData, seed)
    /\ layerOutputs' = LayerOutputs(trainData, predictions', seed)
    /\ isModelTraining' = FALSE
    /\ modelTrained' = TRUE
    /\ trainingProgress' = 0
    /\ trainStage' = 0
    /\ trainData' = <<>>
    /\ runs' = runs - 1
    /\ stockData' = trainData
    /\ UNCHANGED <<activeTab, uploadVars, harnessVars>>

\* FinishTraining that predicts from the stockData of the latest render.
FinishTraining_FromCurrentData(seed) ==
    /\ isModelTraining
    /\ trainStage = Len(StageProgress) - 1
    /\ predictions' = mockPredictions(stockData, seed)
    /\ layerOutputs' = LayerOutputs(stockData, predictions', seed)
    /\ isModelTraining' = FALSE
    /\ modelTrained' = TRUE
    /\ trainingProgress' = 0
    /\ trainStage' = 0
    /\ trainData' = <<>>
    /\ runs' = runs - 1
    /\ UNCHANGED <<stockData, activeTab, uploadVars, harnessVars>>

\* The timer of the last stage fires: setTrainingProgress(100), and the
\* function runs to its end without another await.
FinishTraining(seed) ==
    /\ isModelTraining
    /\ trainStage = Len(StageProgress) - 1
    /\ predictions' = mockPredictions(trainData, seed)
    /\ layerOutputs' = LayerOutputs(trainData, predictions', seed)
    /\ isModelTraining' = FALSE
    /\ modelTrained' = TRUE
    /\ trainingProgress' = 0
    /\ trainStage' = 0
    /\ trainData' = <<>>
    /\ runs' = runs - 1
    /\ UNCHANGED <<stockData, activeTab, uploadVars, harnessVars>>

---------------------------------------------------------------------------
(* LayeredVisualization *)

\* layers[k].id
LayerIds == <<"input", "lstm", "gru", "output">>

\* const isActive = !isTraining && layerOutputs
IsActive == ~isModelTraining /\ layerOutputs # Null

\* IsCurrentlyTraining in which the output layer starts together with the
\* GRU layer.
IsCurrentlyTraining_OutputEarly(id) ==
    /\ isModelTraining
    /\ \/ id = "input" /\ trainingProgress >= 20 /\ trainingProgress < 40
       \/ id = "lstm" /\ trainingProgress >= 40 /\ trainingProgress < 60
       \/ id = "gru" /\ trainingProgress >= 60 /\ trainingProgress < 80
       \/ id = "output" /\ trainingProgress >= 60

\* const isCurrentlyTraining = isTraining && (...)
IsCurrentlyTraining(id) ==
    /\ isModelTraining
    /\ \/ id = "input" /\ trainingProgress >= 20 /\ trainingProgress < 40
       \/ id = "lstm" /\ trainingProgress >= 40 /\ trainingProgress < 60
       \/ id = "gru" /\ trainingProgress >= 60 /\ trainingProgress < 80
       \/ id = "output" /\ trainingProgress >= 80

\* The text after 'Status:' of a layer
LayerStatus(id) ==
    IF IsCurrentlyTraining(id) THEN "Training"
    ELSE IF IsActive THEN "Active"
    ELSE "Inactive"

---------------------------------------------------------------------------
(* JavaScript arithmetic on computed numbers *)

\* A computed number is held exactly, as the fraction n / d in lowest terms
\* with d > 0, or is NaN, PosInf or NegInf.
RECURSIVE GCD(_, _)
GCD(a, b) == IF b = 0 THEN a ELSE GCD(b, a % b)

AbsInt(n) == IF n < 0 THEN 0 - n ELSE n

SignInt(n) == IF n < 0 THEN -1 ELSE IF n > 0 THEN 1 ELSE 0

Reduced(n, d, g) == [k |-> "fin", n |-> n \div g, d |-> d \div g]

Rat(n, d) == Reduced(n, d, GCD(AbsInt(n), d))

Zero == Rat(0, 1)
One == Rat(1, 1)
Hundred == Rat(100, 1)

\* The number held in a field of a StockData or ModelPrediction record.
RatOf(x) == IF isFinite(x) THEN Rat(x.v, Scale) ELSE x

\* 1 for a positive number, -1 for a negative one, 0 for zero (not for NaN).
Sign(a) == IF isFinite(a) THEN SignInt(a.n) ELSE IF a = PosInf THEN 1 ELSE -1

Infinite(sign) == IF sign < 0 THEN NegInf ELSE PosInf

PlusFinite(a, b, l) == Rat(a.n * (l \div a.d) + b.n * (l \div b.d), l)

\* a + b
Plus(a, b) ==
    IF isNaN(a) \/ isNaN(b) THEN NaN
    ELSE IF isFinite(a) /\ isFinite(b)
    THEN PlusFinite(a, b, (a.d \div GCD(a.d, b.d)) * b.d)
    ELSE IF isFinite(a) THEN b
    ELSE IF isFinite(b) \/ a = b THEN a
    ELSE NaN

\* -a
Opposite(a) ==
    IF isNaN(a) THEN NaN
    ELSE IF isFinite(a) THEN Rat(0 - a.n, a.d)
    ELSE Infinite(0 - Sign(a))

\* a - b
Minus(a, b) == Plus(a, Opposite(b))

\* a * b
Times(a, b) ==
    IF isNaN(a) \/ isNaN(b) THEN NaN
    ELSE IF isFinite(a) /\ isFinite(b) THEN Rat(a.n * b.n, a.d * b.d)
    ELSE IF Sign(a) * Sign(b) = 0 THEN NaN
    ELSE Infinite(Sign(a) * Sign(b))

\* a / b (a zero divisor is +0)
Over(a, b) ==
    IF isNaN(a) \/ isNaN(b) THEN NaN
    ELSE IF isFinite(b) /\ b.n = 0
    THEN (IF Sign(a) = 0 THEN NaN ELSE Infinite(Sign(a)))
    ELSE IF isFinite(a) /\ isFinite(b)
    THEN Rat(a.n * b.d * SignInt(b.n), a.d * AbsInt(b.n))
    ELSE IF isFinite(a) THEN Zero
    ELSE IF isFinite(b) THEN Infinite(Sign(a) * Sign(b))
    ELSE NaN

\* Math.abs(a)
Abs(a) == IF isNaN(a) THEN NaN ELSE IF Sign(a) < 0 THEN Opposite(a) ELSE a

\* a > 0 and a < 0
IsPositive(a) == ~isNaN(a) /\ Sign(a) > 0
IsBelowZero(a) == ~isNaN(a) /\ Sign(a) < 0

\* a > b
Greater(a, b) == IsPositive(Minus(a, b))

\* a >= b
AtLeast(a, b) == (~isNaN(a) /\ a = b) \/ Greater(a, b)

---------------------------------------------------------------------------
(* Math.sqrt *)

\* Math.sqrt returns the IEEE 754 double nearest to the square root, and a
\* product of doubles is the double nearest to the exact product.  The 53
\* bits of a double's significand do not fit a TLC integer: a natural number
\* is held as the sequence of its digits in base LimbBase, lowest first and
\* without leading zeros, and a positive double as [k |-> "dbl", m, e] with
\* value m * 2^e and 2^52 <= m < 2^53.
LimbBits == 15
LimbBase == 2^LimbBits

\* Bits of the significand of a double.
SignificandBits == 53

RECURSIVE BigOf(_)
BigOf(n) == IF n = 0 THEN <<>> ELSE <<n % LimbBase>> \o BigOf(n \div LimbBase)

Limb(a, i) == IF i <= Len(a) THEN a[i] ELSE 0

RECURSIVE AddFrom(_, _, _, _)
AddFrom(a, b, i, c) ==
    IF i > Len(a) /\ i > Len(b) THEN BigOf(c)
    ELSE <<(Limb(a, i) + Limb(b, i) + c) % LimbBase>>
         \o AddFrom(a, b, i + 1, (Limb(a, i) + Limb(b, i) + c) \div LimbBase)

BigAdd(a, b) == AddFrom(a, b, 1, 0)

RECURSIVE MulFrom(_, _, _, _)
MulFrom(a, f, i, c) ==
    IF i > Len(a) THEN BigOf(c)
    ELSE <<(a[i] * f + c) % LimbBase>>
         \o MulFrom(a, f, i + 1, (a[i] * f + c) \div LimbBase)

\* a * f, for 0 <= f < LimbBase
BigMulSmall(a, f) == IF f = 0 THEN <<>> ELSE MulFrom(a, f, 1, 0)

\* a * LimbBase^n
RECURSIVE ShiftLimbs(_, _)
ShiftLimbs(a, n) ==
    IF n = 0 \/ a = <<>> THEN a ELSE <<0>> \o ShiftLimbs(a, n - 1)

RECURSIVE MulAcc(_, _, _)
MulAcc(a, b, j) ==
    IF j > Len(b) THEN <<>>
    ELSE BigAdd(BigMulSmall(a, b[j]), ShiftLimbs(MulAcc(a, b, j + 1), 1))

BigMul(a, b) == MulAcc(a, b, 1)

RECURSIVE CmpFrom(_, _, _)
CmpFrom(a, b, i) ==
    IF i = 0 THEN 0
    ELSE IF a[i] # b[i] THEN (IF a[i] < b[i] THEN -1 ELSE 1)
    ELSE CmpFrom(a, b, i - 1)

\* -1, 0 or 1 as a < b, a = b or a > b
BigCmp(a, b) ==
    IF Len(a) # Len(b) THEN (IF Len(a) < Len(b) THEN -1 ELSE 1)
    ELSE CmpFrom(a, b, Len(a))

RECURSIVE TrimZeros(_)
TrimZeros(a) ==
    IF a # <<>> /\ a[Len(a)] = 0 THEN TrimZeros(SubSeq(a, 1, Len(a) - 1))
    ELSE a

\* The quotient digits of a by d from digit i down, with r carried in from
\* the digits above; 0 < d < 2 * LimbBase.
RECURSIVE DivFrom(_, _, _, _)
DivFrom(a, d, i, r) ==
    IF i = 0 THEN <<>>
    ELSE DivFrom(a, d, i - 1, (r * LimbBase + a[i]) % d)
         \o <<(r * LimbBase + a[i]) \div d>>

BigDivSmall(a, d) == TrimZeros(DivFrom(a, d, Len(a), 0))

RECURSIVE ModFrom(_, _, _, _)
ModFrom(a, d, i, r) ==
    IF i = 0 THEN r ELSE ModFrom(a, d, i - 1, (r * LimbBase + a[i]) % d)

BigModSmall(a, d) == ModFrom(a, d, Len(a), 0)

RECURSIVE Pow2(_)
Pow2(n) == IF n = 0 THEN 1 ELSE 2 * Pow2(n - 1)

RECURSIVE BitsOfInt(_)
BitsOfInt(n) == IF n = 0 THEN 0 ELSE 1 + BitsOfInt(n \div 2)

\* The number of bits of a
BigBits(a) ==
    IF a = <<>> THEN 0 ELSE (Len(a) - 1) * LimbBits + BitsOfInt(a[Len(a)])

\* a * 2^n and the integer part of a / 2^n
BigShl(a, n) ==
    ShiftLimbs(BigMulSmall(a, Pow2(n % LimbBits)), n \div LimbBits)

BigShr(a, n) ==
    IF n \div LimbBits >= Len(a) THEN <<>>
    ELSE BigDivSmall(SubSeq(a, n \div LimbBits + 1, Len(a)),
                     Pow2(n % LimbBits))

BigIsOdd(a) == a # <<>> /\ a[1] % 2 = 1

Dbl(m, e) == [k |-> "dbl", m |-> m, e |-> e]

\* The double q * 2^e, or (q + 1) * 2^e when rounding goes up; q has
\* SignificandBits bits.
RoundedUp(q, e, up) ==
    IF ~up THEN Dbl(q, e)
    ELSE IF BigBits(BigAdd(q, <<1>>)) > SignificandBits
    THEN Dbl(BigShr(BigAdd(q, <<1>>), 1), e + 1)
    ELSE Dbl(BigAdd(q, <<1>>), e)

\* Rounding to nearest, ties to even: n against the midpoint
\* (2 q + 1) * 2^(k - 1) of q * 2^k and (q + 1) * 2^k.
RoundsUp(n, q, k, sticky) ==
    \/ BigCmp(n, BigShl(BigAdd(BigMulSmall(q, 2), <<1>>), k - 1)) > 0
    \/ /\ BigCmp(n, BigShl(BigAdd(BigMulSmall(q, 2), <<1>>), k - 1)) = 0
       /\ (sticky \/ BigIsOdd(q))

RoundAt(n, e, k, sticky) ==
    RoundedUp(BigShr(n, k), e + k, RoundsUp(n, BigShr(n, k), k, sticky))

\* The double nearest to a value of at least n * 2^e and below
\* (n + 1) * 2^e, above n * 2^e when sticky; n > 0, and n has more than
\* SignificandBits bits when sticky.
RoundBig(n, e, sticky) ==
    IF BigBits(n) <= SignificandBits
    THEN Dbl(BigShl(n, SignificandBits - BigBits(n)),
             e - (SignificandBits - BigBits(n)))
    ELSE RoundAt(n, e, BigBits(n) - SignificandBits, sticky)

\* Bits kept below the binary point when a fraction is rounded.
FractionBits == 80

\* The double nearest to n / d, for 0 < n and 0 < d < 2 * LimbBase.
RoundRat(n, d) ==
    RoundBig(BigDivSmall(BigShl(BigOf(n), FractionBits), d), 0 - FractionBits,
             BigModSmall(BigShl(BigOf(n), FractionBits), d) # 0)

\* The double held by a computed number.
DoubleOf(x) ==
    IF isFinite(x) /\ x.n > 0 THEN RoundRat(x.n, x.d) ELSE x

\* The largest s with s * s <= n that has the bits of s above bit i and
\* none of the bits above bit SignificandBits.
RECURSIVE IntSqrtFrom(_, _, _)
IntSqrtFrom(n, s, i) ==
    IF i < 0 THEN s
    ELSE IF BigCmp(BigMul(BigAdd(s, BigShl(<<1>>, i)),
                          BigAdd(s, BigShl(<<1>>, i))), n) <= 0
    THEN IntSqrtFrom(n, BigAdd(s, BigShl(<<1>>, i)), i - 1)
    ELSE IntSqrtFrom(n, s, i - 1)

IntSqrt(n) == IntSqrtFrom(n, <<>>, SignificandBits)

\* The double nearest to the square root of n * 2^e, for e even and n of
\* 2 * SignificandBits + 1 or + 2 bits.
SqrtScaled(n, e, s) == RoundBig(s, e \div 2, BigMul(s, s) # n)

\* The square root of m * 2^e with e even.
SqrtEven(m, e) ==
    SqrtScaled(BigShl(m, SignificandBits + 1), e - (SignificandBits + 1),
               IntSqrt(BigShl(m, SignificandBits + 1)))

\* Sqrt that cuts the square root off after SignificandBits bits.
Sqrt_RoundedDown(x) ==
    IF x.k # "dbl" THEN x
    ELSE IF x.e % 2 = 0
    THEN Dbl(BigShr(IntSqrt(BigShl(x.m, SignificandBits + 1)), 1),
             (x.e - (SignificandBits + 1)) \div 2 + 1)
    ELSE Dbl(BigShr(IntSqrt(BigShl(x.m, SignificandBits + 2)), 1),
             (x.e - (SignificandBits + 2)) \div 2 + 1)

\* Math.sqrt(x), for x a double that is not negative
Sqrt(x) ==
    IF x.k # "dbl" THEN x
    ELSE IF x.e % 2 = 0 THEN SqrtEven(x.m, x.e)
    ELSE SqrtEven(BigShl(x.m, 1), x.e - 1)

\* x * y, for doubles x and y that are not negative
TimesDouble(x, y) ==
    IF isNaN(x) \/ isNaN(y) THEN NaN
    ELSE IF x.k = "dbl" /\ y.k = "dbl"
    THEN RoundBig(BigMul(x.m, y.m), x.e + y.e, FALSE)
    ELSE IF x = Zero \/ y = Zero
    THEN (IF x = PosInf \/ y = PosInf THEN NaN ELSE Zero)
    ELSE PosInf

---------------------------------------------------------------------------
(* TechnicalIndicators.indicators *)

\* stockData.slice(a - 1, b).reduce((sum, d) => sum + d.close, 0), for the
\* records a..b counted from 1.  Sums are exact here, so the closes are
\* added in halves rather than from left to right.
RECURSIVE SumCloses(_, _, _)
SumCloses(data, a, b) ==
    IF a > b THEN Zero
    ELSE IF a = b THEN RatOf(data[a].close)
    ELSE Plus(SumCloses(data, a, (a + b) \div 2),
              SumCloses(data, (a + b) \div 2 + 1, b))

\* WindowMean that smooths the mean with the current close.
WindowMean_Smoothed(data, index, w) ==
    IF index >= w - 1
    THEN Over(Plus(Over(SumCloses(data, index - w + 2, index + 1), Rat(w, 1)),
                   RatOf(data[index + 1].close)), Rat(2, 1))
    ELSE RatOf(data[index + 1].close)

\* index >= w - 1 ? slice(index - (w - 1), index + 1).reduce(...) / w
\*                : data.close, at the zero-based index.
WindowMean(data, index, w) ==
    IF index >= w - 1
    THEN Over(SumCloses(data, index - w + 2, index + 1), Rat(w, 1))
    ELSE RatOf(data[index + 1].close)

\* Samples in the window of the RSI.
RsiWindow == 14

\* changes[i] of the window that ends at index: 0 for i = 0, else the
\* close of the window's i-th record minus the close of the one before.
Change(data, index, i) ==
    IF i = 0 THEN Zero
    ELSE Minus(RatOf(data[index - RsiWindow + 2 + i].close),
               RatOf(data[index - RsiWindow + 1 + i].close))

AddIf(sum, c, keep) == IF keep THEN Plus(sum, c) ELSE sum

\* changes.filter(c => c > 0).reduce((sum, c) => sum + c, 0) over changes[0..i]
RECURSIVE SumGains(_, _, _)
SumGains(data, index, i) ==
    IF i < 0 THEN Zero
    ELSE AddIf(SumGains(data, index, i - 1), Change(data, index, i),
               IsPositive(Change(data, index, i)))

\* changes.filter(c => c < 0).reduce((sum, c) => sum + c, 0) over changes[0..i]
RECURSIVE SumLosses(_, _, _)
SumLosses(data, index, i) ==
    IF i < 0 THEN Zero
    ELSE AddIf(SumLosses(data, index, i - 1), Change(data, index, i),
               IsBelowZero(Change(data, index, i)))

\* losses === 0 ? 100 : 100 - (100 / (1 + (gains / losses)))
RsiOf(gains, losses) ==
    IF losses = Zero THEN Hundred
    ELSE Minus(Hundred, Over(Hundred, Plus(One, Over(gains, losses))))

\* Rsi computed as soon as 14 samples are available.
Rsi_FromFullWindow(data, index) ==
    IF index >= RsiWindow - 1
    THEN RsiOf(Over(SumGains(data, index, RsiWindow - 1), Rat(RsiWindow, 1)),
               Over(Abs(SumLosses(data, index, RsiWindow - 1)),
                    Rat(RsiWindow, 1)))
    ELSE Rat(50, 1)

\* let rsi = 50; if (index >= 14) { ... }
Rsi(data, index) ==
    IF index >= RsiWindow
    THEN RsiOf(Over(SumGains(data, index, RsiWindow - 1), Rat(RsiWindow, 1)),
               Over(Abs(SumLosses(data, index, RsiWindow - 1)),
                    Rat(RsiWindow, 1)))
    ELSE Rat(50, 1)

\* The indicator point of the record at the zero-based index.  The Bollinger
\* bands, which add Math.sqrt of the 20-sample variance to sma20, are left
\* out: bb_middle is sma20.
Indicator(data, index) ==
    [date |-> data[index + 1].date,
     close |-> data[index + 1].close,
     sma20 |-> WindowMean(data, index, 20),
     sma50 |-> WindowMean(data, index, 50),
     rsi |-> Rsi(data, index),
     macd |-> Minus(WindowMean(data, index, 12), WindowMean(data, index, 26)),
     bb_middle |-> WindowMean(data, index, 20)]

\* Records below which the component computes nothing.
MinIndicatorData == 50

\* TechnicalIndicators that computes from 49 records on.
TechnicalIndicators_OneBelow(data) ==
    IF Len(data) < MinIndicatorData - 1 THEN <<>>
    ELSE [j \in 1..Len(data) |-> Indicator(data, j - 1)]

\* if (stockData.length < 50) return []; return stockData.map(...)
TechnicalIndicators(data) ==
    IF Len(data) < MinIndicatorData THEN <<>>
    ELSE [j \in 1..Len(data) |-> Indicator(data, j - 1)]

\* The 'Insufficient Data' message is returned: latestIndicators, the last
\* element of indicators, is undefined.
InsufficientData(inds) == Len(inds) = 0

---------------------------------------------------------------------------
(* PerformanceMetrics.metrics *)

\* xs.reduce((sum, e) => sum + e, 0) over the first n elements of xs
RECURSIVE SumSeq(_, _)
SumSeq(xs, n) == IF n = 0 THEN Zero ELSE Plus(SumSeq(xs, n - 1), xs[n])

\* Math.pow(x, 2) and e * e
Square(x) == Times(x, x)

\* predictions.map(p => p.actual - p.predicted)
Errors(preds) ==
    [j \in 1..Len(preds) |->
        Minus(RatOf(preds[j].actual), RatOf(preds[j].predicted))]

AbsoluteErrors(preds) == [j \in 1..Len(preds) |-> Abs(Errors(preds)[j])]

SquaredErrors(preds) == [j \in 1..Len(preds) |-> Square(Errors(preds)[j])]

\* predictions.map(p => Math.abs((p.actual - p.predicted) / p.actual) * 100)
PercentageErrors(preds) ==
    [j \in 1..Len(preds) |->
        Times(Abs(Over(Errors(preds)[j], RatOf(preds[j].actual))), Hundred)]

\* xs.reduce(...) / predictions.length
MeanOf(xs) == Over(SumSeq(xs, Len(xs)), Rat(Len(xs), 1))

Actuals(preds) == [j \in 1..Len(preds) |-> RatOf(preds[j].actual)]

\* Math.pow(p.actual - actualMean, 2) of each prediction
SquaredDeviations(preds, actualMean) ==
    [j \in 1..Len(preds) |-> Square(Minus(Actuals(preds)[j], actualMean))]

\* predictions.reduce((sum, p) => sum + Math.pow(p.actual - actualMean, 2), 0)
TotalSumSquares(preds) ==
    SumSeq(SquaredDeviations(preds, MeanOf(Actuals(preds))), Len(preds))

\* 1 - (residualSumSquares / totalSumSquares)
R2Score(preds) ==
    Minus(One, Over(SumSeq(SquaredErrors(preds), Len(preds)),
                    TotalSumSquares(preds)))

\* Math.abs(p.actual - p.predicted) / p.actual <= 0.05
IsAccurate(p) ==
    AtLeast(Rat(5, 100),
            Over(Abs(Minus(RatOf(p.actual), RatOf(p.predicted))),
                 RatOf(p.actual)))

\* (accuratePredictons / predictions.length) * 100
Accuracy(preds) ==
    Times(Over(Rat(Cardinality({j \in 1..Len(preds) : IsAccurate(preds[j])}), 1),
               Rat(Len(preds), 1)), Hundred)

\* p.actual > predictions[i].actual, for p at position j and its
\* predecessor; likewise on predicted.
ActualDirection(preds, j) ==
    Greater(RatOf(preds[j].actual), RatOf(preds[j - 1].actual))

PredictedDirection(preds, j) ==
    Greater(RatOf(preds[j].predicted), RatOf(preds[j - 1].predicted))

\* predictions.slice(1).filter(...).length
DirectionallyCorrect(preds) ==
    Cardinality({j \in 2..Len(preds) :
                    ActualDirection(preds, j) = PredictedDirection(preds, j)})

\* DirectionalAccuracy that reports 100 when there is no pair to compare.
DirectionalAccuracy_FullWithoutPairs(preds) ==
    IF Len(preds) = 1 THEN Hundred
    ELSE Times(Over(Rat(DirectionallyCorrect(preds), 1),
                    Rat(Len(preds) - 1, 1)), Hundred)

\* (directionallyCorrect / (predictions.length - 1)) * 100
DirectionalAccuracy(preds) ==
    Times(Over(Rat(DirectionallyCorrect(preds), 1), Rat(Len(preds) - 1, 1)),
          Hundred)

\* The useMemo value of PerformanceMetrics.  mse is held exactly and rmse is
\* the Math.sqrt of the double nearest to it.
Metrics(preds) ==
    IF Len(preds) = 0 THEN Null
    ELSE [mse |-> MeanOf(SquaredErrors(preds)),
          rmse |-> Sqrt(DoubleOf(MeanOf(SquaredErrors(preds)))),
          mae |-> MeanOf(AbsoluteErrors(preds)),
          mape |-> MeanOf(PercentageErrors(preds)),
          r2Score |-> R2Score(preds),
          accuracy |-> Accuracy(preds),
          directionalAccuracy |-> DirectionalAccuracy(preds),
          totalPredictions |-> Len(preds)]

---------------------------------------------------------------------------
(* Recommendations.recommendation *)

\* Math.min(a, b) and Math.max(a, b)
MathMin(a, b) ==
    IF isNaN(a) \/ isNaN(b) THEN NaN ELSE IF Greater(a, b) THEN b ELSE a

MathMax(a, b) ==
    IF isNaN(a) \/ isNaN(b) THEN NaN ELSE IF Greater(b, a) THEN b ELSE a

\* stockData[stockData.length - 1].close
CurrentPrice(data) == RatOf(data[Len(data)].close)

\* predictions[predictions.length - 1]
LatestPrediction(preds) == preds[Len(preds)]

\* latestPrediction.predicted - currentPrice
PriceChange(data, preds) ==
    Minus(RatOf(LatestPrediction(preds).predicted), CurrentPrice(data))

\* (priceChange / currentPrice) * 100
PriceChangePercent(data, preds) ==
    Times(Over(PriceChange(data, preds), CurrentPrice(data)), Hundred)

\* The number of i with recent[i].predicted > recent[i - 1].predicted
TrendUp(recent) ==
    Cardinality({i \in 2..Len(recent) :
                    Greater(RatOf(recent[i].predicted),
                            RatOf(recent[i - 1].predicted))})

TrendOf(recent) ==
    IF Len(recent) > 1 THEN Rat(TrendUp(recent), Len(recent) - 1)
    ELSE Rat(1, 2)

\* trendStrength, of predictions.slice(-3)
TrendStrength(preds) == TrendOf(SliceLast(preds, 3))

\* The last of stockData.slice(-5) is above its first.
MovingUp(recent) ==
    Greater(RatOf(recent[Len(recent)].close), RatOf(recent[1].close))

PriceMovingUp(data) == MovingUp(SliceLast(data, 5))

Confidences(recent) == [j \in 1..Len(recent) |-> RatOf(recent[j].confidence)]

\* predictions.slice(-3).reduce(...) / Math.min(3, predictions.length)
AvgConfidence(preds) ==
    Over(SumSeq(Confidences(SliceLast(preds, 3)), Len(SliceLast(preds, 3))),
         Rat(Min(3, Len(preds)), 1))

\* Branch with the weak signals taken from 0.2 percent on.
Branch_LowerThreshold(pcp, trend, latest, up, avg) ==
    IF /\ Greater(pcp, Rat(15, 10))
       /\ AtLeast(trend, Rat(1, 2))
       /\ Greater(latest, Rat(7, 10))
    THEN 1
    ELSE IF /\ Greater(Rat(-15, 10), pcp)
            /\ AtLeast(Rat(1, 2), trend)
            /\ Greater(latest, Rat(7, 10))
    THEN 2
    ELSE IF Greater(pcp, Rat(8, 10)) /\ up /\ Greater(avg, Rat(75, 100))
    THEN 3
    ELSE IF Greater(Rat(-8, 10), pcp) /\ ~up /\ Greater(avg, Rat(75, 100))
    THEN 4
    ELSE IF Greater(pcp, Rat(2, 10)) /\ Greater(trend, Rat(6, 10))
    THEN 5
    ELSE IF Greater(Rat(-2, 10), pcp) /\ Greater(Rat(4, 10), trend)
    THEN 6
    ELSE 7

\* The branch of the if / else if chain that is taken: 1 to 6 for the six
\* conditions in the order they are tried, 7 for the final else.
Branch(pcp, trend, latest, up, avg) ==
    IF /\ Greater(pcp, Rat(15, 10))
       /\ AtLeast(trend, Rat(1, 2))
       /\ Greater(latest, Rat(7, 10))
    THEN 1
    ELSE IF /\ Greater(Rat(-15, 10), pcp)
            /\ AtLeast(Rat(1, 2), trend)
            /\ Greater(latest, Rat(7, 10))
    THEN 2
    ELSE IF Greater(pcp, Rat(8, 10)) /\ up /\ Greater(avg, Rat(75, 100))
    THEN 3
    ELSE IF Greater(Rat(-8, 10), pcp) /\ ~up /\ Greater(avg, Rat(75, 100))
    THEN 4
    ELSE IF Greater(pcp, Rat(3, 10)) /\ Greater(trend, Rat(6, 10))
    THEN 5
    ELSE IF Greater(Rat(-3, 10), pcp) /\ Greater(Rat(4, 10), trend)
    THEN 6
    ELSE 7

ActionOf(branch) ==
    IF branch \in {1, 3, 5} THEN "BUY"
    ELSE IF branch \in {2, 4, 6} THEN "SELL"
    ELSE "HOLD"

\* ConfidenceOf without the caps of the first two branches.
ConfidenceOf_Uncapped(branch, avg) ==
    IF branch = 1 THEN Plus(Times(avg, Rat(9, 10)), Rat(1, 10))
    ELSE IF branch = 2 THEN Plus(Times(avg, Rat(85, 100)), Rat(1, 10))
    ELSE IF branch \in {3, 4} THEN Times(avg, Rat(8, 10))
    ELSE IF branch \in {5, 6} THEN MathMax(Rat(1, 2), Times(avg, Rat(7, 10)))
    ELSE Times(avg, Rat(6, 10))

ConfidenceOf(branch, avg) ==
    IF branch = 1
    THEN MathMin(Rat(95, 100), Plus(Times(avg, Rat(9, 10)), Rat(1, 10)))
    ELSE IF branch = 2
    THEN MathMin(Rat(9, 10), Plus(Times(avg, Rat(85, 100)), Rat(1, 10)))
    ELSE IF branch \in {3, 4} THEN Times(avg, Rat(8, 10))
    ELSE IF branch \in {5, 6} THEN MathMax(Rat(1, 2), Times(avg, Rat(7, 10)))
    ELSE Times(avg, Rat(6, 10))

\* The opening words of reason
ReasonOf(branch) ==
    <<"Upward trend predicted", "Downward trend predicted",
      "Positive momentum detected", "Negative momentum detected",
      "Weak bullish signal", "Weak bearish signal",
      "Neutral prediction">>[branch]

\* TargetMultiplier without its floor of 3 percent.
TargetMultiplier_NoFloor(pcp) == Plus(One, Times(Abs(pcp), Rat(15, 1000)))

\* Math.max(1.03, 1 + Math.abs(priceChangePercent) * 0.015)
TargetMultiplier(pcp) ==
    MathMax(Rat(103, 100), Plus(One, Times(Abs(pcp), Rat(15, 1000))))

\* Math.max(0.97, 1 - Math.abs(priceChangePercent) * 0.01)
StopMultiplier(pcp) ==
    MathMax(Rat(97, 100), Minus(One, Times(Abs(pcp), Rat(1, 100))))

TargetPrice(action, price, pcp) ==
    IF action = "BUY" THEN Times(price, TargetMultiplier(pcp))
    ELSE IF action = "SELL"
    THEN Times(price, Minus(Rat(2, 1), TargetMultiplier(pcp)))
    ELSE price

\* StopLoss that puts the stop of a SELL below the price as well.
StopLoss_AlwaysBelow(action, price, pcp) ==
    IF action = "HOLD" THEN price ELSE Times(price, StopMultiplier(pcp))

StopLoss(action, price, pcp) ==
    IF action = "BUY" THEN Times(price, StopMultiplier(pcp))
    ELSE IF action = "SELL"
    THEN Times(price, Minus(Rat(2, 1), StopMultiplier(pcp)))
    ELSE price

\* The object returned for the branch taken
Recommended(branch, data, preds, pcp, avg) ==
    [action |-> ActionOf(branch),
     confidence |-> ConfidenceOf(branch, avg),
     reason |-> ReasonOf(branch),
     targetPrice |-> TargetPrice(ActionOf(branch), CurrentPrice(data), pcp),
     stopLoss |-> StopLoss(ActionOf(branch), CurrentPrice(data), pcp),
     currentPrice |-> CurrentPrice(data),
     predictedPrice |-> RatOf(LatestPrediction(preds).predicted),
     priceChange |-> PriceChange(data, preds),
     priceChangePercent |-> pcp,
     trendStrength |-> TrendStrength(preds)]

Decided(data, preds, pcp, avg) ==
    Recommended(Branch(pcp, TrendStrength(preds),
                       RatOf(LatestPrediction(preds).confidence),
                       PriceMovingUp(data), avg),
                data, preds, pcp, avg)

\* The useMemo value of Recommendations; volatility, which takes no part in
\* the decision, is left out.
Recommendation(data, preds) ==
    IF Len(data) = 0 \/ Len(preds) = 0 THEN Null
    ELSE Decided(data, preds, PriceChangePercent(data, preds),
                 AvgConfidence(preds))

---------------------------------------------------------------------------
(* The application *)

Init ==
    /\ AppInit
    /\ csvText = <<>>
    /\ rndSeed = 0
    /\ parsed = <<>>
    /\ parseDone = FALSE
    /\ indicators = NotRendered
    /\ metrics = NotRendered
    /\ recommendation = NotRendered

Next ==
    \/ \E t \in ClickedTabs : SetActiveTab(t)
    \/ \E file \in Files : HandleFileInput(file)
    \/ \E files \in DropLists : HandleDrop(files)
    \/ \E k \in 1..Len(readers), seed \in SampleSeeds :
           ReaderOnload(k, seed)
    \/ \E seed \in SampleSeeds : GenerateSampleData(seed)
    \/ StartTraining
    \/ TrainingStage
    \/ \E seed \in Seeds : FinishTraining(seed)

Spec == Init /\ [][Next]_vars

\* The timers of a training run fire: setTimeout callbacks are never
\* cancelled, so a stage that is waiting for its timer is eventually run.
FairFiles == {[csv |-> TRUE, text |-> FileGuide],
              [csv |-> TRUE, text |-> FileNoClose]}

\* The application with the files of a successful and of a failed upload,
\* chosen through the file input.
FairNext ==
    \/ \E t \in ClickedTabs : SetActiveTab(t)
    \/ \E file \in FairFiles : HandleFileInput(file)
    \/ \E k \in 1..Len(readers), seed \in SampleSeeds :
           ReaderOnload(k, seed)
    \/ \E seed \in SampleSeeds : GenerateSampleData(seed)
    \/ StartTraining
    \/ TrainingStage
    \/ \E seed \in Seeds : FinishTraining(seed)

FairSpec ==
    /\ Init
    /\ [][FairNext]_vars
    /\ WF_vars(TrainingStage)
    /\ WF_vars(\E seed \in Seeds : FinishTraining(seed))

---------------------------------------------------------------------------
(* TechnicalIndicators rendered on one stockData *)

\* The close of record i (from 0) of a price series: a line of slope step
\* from base with a wave of the given height and period on it, in units of
\* 1/Scale, and Infinity at index infAt.
SeriesClose(i, shape) ==
    IF i = shape.infAt THEN PosInf
    ELSE Num(shape.base + shape.step * i + shape.wave * (i % shape.period))

\* The record parseCSVData returns for a row of a date,close file.
SeriesRecord(i, shape) ==
    [date |-> IsoDate(i),
     open |-> SeriesClose(i, shape),
     high |-> SeriesClose(i, shape),
     low |-> SeriesClose(i, shape),
     close |-> SeriesClose(i, shape),
     volume |-> Num(0)]

Series(len, shape) == [j \in 1..len |-> SeriesRecord(j - 1, shape)]

Shapes ==
    [base : {2000, 5025}, step : {0, 7, -3}, wave : {0, 50}, period : {2, 5},
     infAt : {-1, 30}]

\* Longest price series.
MaxSeries == 51

IndicatorInputs ==
    {Series(len, shape) :
        len \in (MinIndicatorData - 1)..MaxSeries, shape \in Shapes}
    \cup {sampleData(seed) : seed \in SampleSeeds}

IndicatorsInit ==
    /\ stockData \in IndicatorInputs
    /\ predictions = <<>>
    /\ isModelTraining = FALSE
    /\ modelTrained = FALSE
    /\ activeTab = "indicators"
    /\ trainingProgress = 0
    /\ layerOutputs = Null
    /\ trainStage = 0
    /\ trainData = <<>>
    /\ runs = 0
    /\ uploadStatus = "idle"
    /\ readers = <<>>
    /\ started = 0
    /\ csvText = <<>>
    /\ rndSeed = 0
    /\ parsed = <<>>
    /\ parseDone = FALSE
    /\ indicators = NotRendered
    /\ metrics = NotRendered
    /\ recommendation = NotRendered

\* <TechnicalIndicators stockData={stockData} /> is rendered.
RenderIndicators ==
    /\ indicators = NotRendered
    /\ indicators' = TechnicalIndicators(stockData)
    /\ UNCHANGED <<appVars, uploadVars, csvText, rndSeed, parsed, parseDone,
                   metrics, recommendation>>

IndicatorsNext == RenderIndicators

SpecIndicators == IndicatorsInit /\ [][IndicatorsNext]_vars

---------------------------------------------------------------------------
(* PerformanceMetrics rendered on one predictions array *)

\* Actual values, in units of 1/Scale, and the offsets of predicted from a
\* positive actual (within 6% of it).
ActualUnits == {1000, 1020}
PredictedOffsets == {-50, 0, 50}

\* The actual and predicted of a prediction: of a record with one of the
\* positive closes, or with close 0 (whose predicted is 0 as well).
PredictionValues ==
    {[actual |-> Num(a), predicted |-> Num(a + o)] :
        a \in ActualUnits, o \in PredictedOffsets}
    \cup {[actual |-> Num(0), predicted |-> Num(0)]}

\* Longest predictions array.
MaxPredictions == 3

PredictionAt(j, val) ==
    [date |-> IsoDate(j - 1),
     actual |-> val.actual,
     predicted |-> val.predicted,
     confidence |-> Num(75)]

PredictionInputs ==
    UNION {{[j \in 1..n |-> PredictionAt(j, vals[j])] :
               vals \in [1..n -> PredictionValues]} : n \in 0..MaxPredictions}

MetricsInit ==
    /\ stockData = <<>>
    /\ predictions \in PredictionInputs
    /\ isModelTraining = FALSE
    /\ modelTrained = (predictions # <<>>)
    /\ activeTab = "metrics"
    /\ trainingProgress = 0
    /\ layerOutputs = Null
    /\ trainStage = 0
    /\ trainData = <<>>
    /\ runs = 0
    /\ uploadStatus = "idle"
    /\ readers = <<>>
    /\ started = 0
    /\ csvText = <<>>
    /\ rndSeed = 0
    /\ parsed = <<>>
    /\ parseDone = FALSE
    /\ indicators = NotRendered
    /\ metrics = NotRendered
    /\ recommendation = NotRendered

\* <PerformanceMetrics predictions={predictions} /> is rendered.
RenderMetrics ==
    /\ metrics = NotRendered
    /\ metrics' = Metrics(predictions)
    /\ UNCHANGED <<appVars, uploadVars, csvText, rndSeed, parsed, parseDone,
                   indicators, recommendation>>

MetricsNext == RenderMetrics

SpecMetrics == MetricsInit /\ [][MetricsNext]_vars

---------------------------------------------------------------------------
(* Recommendations rendered on one stockData and one predictions array *)

\* The closes of the stockData, in units of 1/Scale: one record, a rise or
\* a fall to 100.00, a price of 0 and a negative price.
PriceLists ==
    {<<10000>>, <<9900, 10000>>, <<10100, 10000>>, <<0>>, <<-10000>>}

PriceRecord(j, close) ==
    [date |-> IsoDate(j - 1),
     open |-> Num(close),
     high |-> Num(close),
     low |-> Num(close),
     close |-> Num(close),
     volume |-> Num(0)]

PriceData(closes) == [j \in 1..Len(closes) |-> PriceRecord(j, closes[j])]

\* The latest predicted value, as an offset from 100.00 (0.3%, 0.5%, 1%, 2%
\* and 4% either way), and its confidence in units of 1/Scale.
LatestOffsets == {-400, -200, -100, -50, -30, 0, 30, 50, 100, 200, 400}
LatestConfidences == {0, 75, 100}

\* The predicted values and confidences of the predictions before it.
EarlierPredicted == {9500, 9800, 10500}
EarlierConfidences == {0, 100}

LatestValues ==
    {[predicted |-> 10000 + o, confidence |-> c] :
        o \in LatestOffsets, c \in LatestConfidences}

EarlierValues ==
    {[predicted |-> p, confidence |-> c] :
        p \in EarlierPredicted, c \in EarlierConfidences}

\* Longest predictions array.
MaxRecent == 3

RecentPrediction(j, val) ==
    [date |-> IsoDate(j - 1),
     actual |-> Num(10000),
     predicted |-> Num(val.predicted),
     confidence |-> Num(val.confidence)]

RecentPredictions(n) ==
    {[j \in 1..n |-> RecentPrediction(j, IF j = n THEN last ELSE before[j])] :
        last \in LatestValues, before \in [1..(n - 1) -> EarlierValues]}

RecommendInit ==
    /\ stockData \in {PriceData(closes) : closes \in PriceLists}
    /\ predictions \in UNION {RecentPredictions(n) : n \in 1..MaxRecent}
    /\ isModelTraining = FALSE
    /\ modelTrained = TRUE
    /\ activeTab = "recommendations"
    /\ trainingProgress = 0
    /\ layerOutputs = Null
    /\ trainStage = 0
    /\ trainData = <<>>
    /\ runs = 0
    /\ uploadStatus = "idle"
    /\ readers = <<>>
    /\ started = 0
    /\ csvText = <<>>
    /\ rndSeed = 0
    /\ parsed = <<>>
    /\ parseDone = FALSE
    /\ indicators = NotRendered
    /\ metrics = NotRendered
    /\ recommendation = NotRendered

\* <Recommendations stockData={stockData} predictions={predictions} /> is
\* rendered.
RenderRecommendations ==
    /\ recommendation = NotRendered
    /\ recommendation' = Recommendation(stockData, predictions)
    /\ UNCHANGED <<appVars, uploadVars, csvText, rndSeed, parsed, parseDone,
                   indicators, metrics>>

RecommendNext == RenderRecommendations

SpecRecommend == RecommendInit /\ [][RecommendNext]_vars

---------------------------------------------------------------------------
(* Properties of parseCSVData (specification SpecParse) *)

\* Zero-based index of the first header cell that contains one of the words,
\* capitals and surrounding spaces aside (-1 if none).
FirstColumn(lines, words) ==
    LET cells == MapTrim(split(toLowerCase(lines[1]), ","))
    IN  FindIndex([c \in 1..Len(cells) |->
                       \E w \in words : includes(cells[c], w)])

DateColumn(lines) ==
    FirstColumn(lines, {<<"d", "a", "t", "e">>, <<"t", "i", "m", "e">>})

CloseColumn(lines) ==
    FirstColumn(lines, {<<"c", "l", "o", "s", "e">>, <<"p", "r", "i", "c", "e">>})

OpenColumn(lines) == FirstColumn(lines, {<<"o", "p", "e", "n">>})
HighColumn(lines) == FirstColumn(lines, {<<"h", "i", "g", "h">>})
LowColumn(lines) == FirstColumn(lines, {<<"l", "o", "w">>})

\* The field of column col in line i.
FieldOf(lines, i, col) == At(MapTrim(split(lines[i], ",")), col)

Unparsable(field) == isNaN(parseFloat(field))

\* The data lines from line i on (the header is line 1) whose field in
\* column col parses to a number.
RECURSIVE ParsableFrom(_, _, _)
ParsableFrom(lines, col, i) ==
    IF i > Len(lines) THEN <<>>
    ELSE (IF Unparsable(FieldOf(lines, i, col)) THEN <<>> ELSE <<i>>)
         \o ParsableFrom(lines, col, i + 1)

\* The data lines of the text whose close field parses.
ParsableLines(text) ==
    LET lines == split(trim(text), "\n")
        col == CloseColumn(lines)
    IN  IF col < 0 THEN <<>> ELSE ParsableFrom(lines, col, 2)

\* The lines parseCSVData emits a record for, in input order.
KeptLines(text) ==
    LET lines == split(trim(text), "\n")
    IN  IF DateColumn(lines) >= 0 THEN ParsableLines(text) ELSE <<>>

\* C1 (as claimed): every record returned by parseCSVData has a finite close,
\* and no data row whose close field does not parse is in the result.
C1_FiniteClose ==
    parseDone =>
        /\ \A j \in 1..Len(parsed) : isFinite(parsed[j].close)
        /\ Len(parsed) <= Len(ParsableLines(csvText))

\* C2 (as claimed): parseCSVData emits one record per data row with a
\* parseable close, in the order of the rows, and never the header row; the
\* example of the format guide gives two records, close 152.5 then 154.25.
C2_OnePerParsableRow ==
    parseDone =>
        LET lines == split(trim(csvText), "\n")
            rows == ParsableLines(csvText)
        IN  /\ Len(parsed) = Len(rows)
            /\ \A j \in 1..Len(parsed) :
                   /\ rows[j] >= 2
                   /\ parsed[j].close
                          = parseFloat(FieldOf(lines, rows[j], CloseColumn(lines)))
            /\ csvText = FileGuide =>
                   [j \in 1..Len(parsed) |-> parsed[j].close]
                       = <<Num(15250), Num(15425)>>

\* C2 (amended): when the header has both a date/time column and a
\* close/price column, parseCSVData emits one record per data row with a
\* parseable close, in the order of the rows, and never the header row;
\* otherwise it emits nothing.  The example of the format guide gives two
\* records, close 152.5 then 154.25.
C2_OnePerKeptRow ==
    parseDone =>
        LET lines == split(trim(csvText), "\n")
            rows == KeptLines(csvText)
        IN  /\ Len(parsed) = Len(rows)
            /\ \A j \in 1..Len(parsed) :
                   /\ rows[j] >= 2
                   /\ parsed[j].close
                          = parseFloat(FieldOf(lines, rows[j], CloseColumn(lines)))
            /\ csvText = FileGuide =>
                   [j \in 1..Len(parsed) |-> parsed[j].close]
                       = <<Num(15250), Num(15425)>>

\* C2 witness: a header and two data rows, the first with an unparsable
\* close, have been parsed to the one record of the second data row.
C2_Witness ==
    /\ parseDone
    /\ Len(CsvLines(csvText)) = 3
    /\ Len(parsed) = 1
    /\ KeptLines(csvText) = <<3>>

\* C3 (as claimed): in every record, each of open, high and low equals the
\* close whenever its column is absent or its field is unparsable.
C3_DefaultsToClose ==
    parseDone =>
        LET lines == split(trim(csvText), "\n")
            rows == KeptLines(csvText)
            Defaulted(j, col) ==
                col < 0 \/ Unparsable(FieldOf(lines, rows[j], col))
        IN  \A j \in 1..Len(parsed) :
                /\ Defaulted(j, OpenColumn(lines))
                       => parsed[j].open = parsed[j].close
                /\ Defaulted(j, HighColumn(lines))
                       => parsed[j].high = parsed[j].close
                /\ Defaulted(j, LowColumn(lines))
                       => parsed[j].low = parsed[j].close

\* What a record holds for a price column: the close when the header has no
\* such column, 0 when the field is unparsable, the field otherwise.
PriceOf(lines, i, col, close) ==
    IF col < 0 THEN close
    ELSE IF Unparsable(FieldOf(lines, i, col)) THEN Num(0)
    ELSE parseFloat(FieldOf(lines, i, col))

\* C3 (amended): in every record, each of open, high and low independently
\* equals the close when its column is absent from the header, and is 0 when
\* the column is present and its field is unparsable.
C3_DefaultsToCloseOrZero ==
    parseDone =>
        LET lines == split(trim(csvText), "\n")
            rows == KeptLines(csvText)
        IN  \A j \in 1..Len(parsed) :
                LET Price(col) == PriceOf(lines, rows[j], col, parsed[j].close)
                IN  /\ parsed[j].open = Price(OpenColumn(lines))
                    /\ parsed[j].high = Price(HighColumn(lines))
                    /\ parsed[j].low = Price(LowColumn(lines))

\* C3 witness: a record whose open field is unparsable and whose high and low
\* columns are absent.
C3_Witness ==
    /\ parseDone
    /\ LET lines == split(trim(csvText), "\n")
           rows == KeptLines(csvText)
       IN  \E j \in 1..Len(parsed) :
               /\ OpenColumn(lines) >= 0
               /\ Unparsable(FieldOf(lines, rows[j], OpenColumn(lines)))
               /\ HighColumn(lines) < 0
               /\ LowColumn(lines) < 0
               /\ parsed[j].open = Num(0)
               /\ parsed[j].high = parsed[j].close
               /\ parsed[j].close # Num(0)

\* C4: parseCSVData emits records only when the header has a date/time
\* column and a close/price column (case-insensitive); then the date and the
\* close of each record come from the first matching columns.
C4_RequiredColumns ==
    parseDone =>
        LET lines == split(trim(csvText), "\n")
            rows == KeptLines(csvText)
        IN  /\ (DateColumn(lines) < 0 \/ CloseColumn(lines) < 0)
                   => parsed = <<>>
            /\ Len(parsed) <= Len(rows)
            /\ \A j \in 1..Len(parsed) :
                   /\ parsed[j].date = FieldOf(lines, rows[j], DateColumn(lines))
                   /\ parsed[j].close
                          = parseFloat(FieldOf(lines, rows[j], CloseColumn(lines)))

\* C4 witness: records parsed under a header in capitals whose first
\* close-like column is "Price" and first date-like column is "Date", with
\* further close-like and date-like columns after them.
C4_Witness ==
    /\ parseDone
    /\ parsed # <<>>
    /\ CsvLines(csvText)[1] = HeaderPriceClose
    /\ CloseColumn(CsvLines(csvText)) = 0
    /\ DateColumn(CsvLines(csvText)) = 1

---------------------------------------------------------------------------
(* Properties of the application (specification Spec) *)

\* A step in which the onload handler of a FileReader runs.
\* A FileReader is in flight from readAsText to its onload.
OnloadStep == Len(readers') < Len(readers)

\* The position in readers of the FileReader whose onload runs in the step.
Completing ==
    CHOOSE k \in 1..Len(readers) :
        \A j \in 1..Len(readers') : readers'[j].id # readers[k].id

\* The arrays parseCSVData may return for the completing FileReader.
CompletingResults ==
    {UploadTable[readers[Completing].text][seed] : seed \in Seeds}

\* C5 (as claimed): when a file read completes and parsing yields no record,
\* the upload status becomes 'error', onDataUpload is not called, and
\* stockData, predictions and modelTrained are unchanged.
C5_FailedReadReportsError ==
    [][(OnloadStep /\ CompletingResults = {<<>>}) =>
           /\ uploadStatus' = "error"
           /\ stockData' = stockData
           /\ predictions' = predictions
           /\ modelTrained' = modelTrained]_vars

\* C6 (as claimed): every record held in stockData has a non-negative close.
C6_NonNegativeClose ==
    \A j \in 1..Len(stockData) : ~IsNegative(stockData[j].close)

\* a <= b on two dates held as strings.
DateLeq(a, b) == a # Undefined /\ b # Undefined /\ ~StrLess(b, a)

\* C7 (as claimed): the records held in stockData are in ascending order of
\* date.
C7_DateAscending ==
    \A j \in 1..(Len(stockData) - 1) :
        DateLeq(stockData[j].date, stockData[j + 1].date)

\* C8: stockData changes only when a read completes with at least one
\* record or when sample data is generated, and is then exactly the new
\* array; steps of a training run and tab switches leave it unchanged.
C8_StockDataFrame ==
    [][/\ stockData' # stockData =>
              \/ /\ OnloadStep
                 /\ stockData' \in CompletingResults
                 /\ stockData' # <<>>
              \/ /\ ~OnloadStep
                 /\ readers' = readers
                 /\ activeTab = "upload"
                 /\ uploadStatus' = "success"
                 /\ \E seed \in Seeds : stockData' = sampleData(seed)
       /\ (\/ activeTab' # activeTab
           \/ isModelTraining' # isModelTraining
           \/ trainStage' # trainStage
           \/ trainingProgress' # trainingProgress
           \/ predictions' # predictions
           \/ modelTrained' # modelTrained) => stockData' = stockData]_vars

\* C8 witness: an upload has replaced the sample data that a training run
\* was started on, the run has finished since, and the user has left the
\* upload tab.
C8_Witness ==
    /\ stockData = UploadTable[FileGuide][0]
    /\ modelTrained
    /\ Len(predictions) = 30
    /\ ~isModelTraining
    /\ activeTab # "upload"

\* C9 (as claimed): when a successful upload replaces data loaded earlier, no
\* predictions, trained flag or layer outputs computed from the earlier data
\* remain.
C9_UploadResetsState ==
    [][(OnloadStep /\ stockData # <<>> /\ <<>> \notin CompletingResults) =>
           /\ stockData' \in CompletingResults
           /\ predictions' = <<>>
           /\ modelTrained' = FALSE
           /\ layerOutputs' = Null]_vars

\* C10: the onload of a FileReader applies the parse result of its own file
\* (stockData is that result, or is unchanged when the result is empty)
\* whatever the order in which the reads were started, and leaves the other
\* FileReaders in flight.
C10_EachReadAppliesItsResult ==
    [][OnloadStep =>
           /\ readers' = RemoveAt(readers, Completing)
           /\ \E data \in CompletingResults :
                  stockData' = IF data # <<>> THEN data ELSE stockData]_vars

\* C10 witness: two reads were in flight together; the one started second
\* has completed and stockData is its result, while the one started first
\* is still in flight.
C10_Witness ==
    /\ started = 2
    /\ Len(readers) = 1
    /\ readers[1].id = 1
    /\ readers[1].text = FileGuide
    /\ stockData = UploadTable[FileUnchecked][0]

\* A step in which a training run finishes.
FinishStep == isModelTraining /\ ~isModelTraining'

\* The values of trainingProgress in a run, in order.
ProgressValues == <<0>> \o StageProgress

\* C11 (as claimed): while a run is in progress trainingProgress only moves
\* from one of 0, 20, 40, 60, 80, 90, 100 to the next, and the step that
\* finishes the run takes it from 100 to 0.
C11_ProgressSequence ==
    [][isModelTraining =>
           /\ isModelTraining' =>
                  \/ trainingProgress' = trainingProgress
                  \/ \E j \in 1..(Len(ProgressValues) - 1) :
                         /\ trainingProgress = ProgressValues[j]
                         /\ trainingProgress' = ProgressValues[j + 1]
           /\ ~isModelTraining' =>
                  /\ trainingProgress = 100
                  /\ trainingProgress' = 0]_vars

\* C12: under fair firing of the timers every training run that has started
\* finishes, whatever else happens meanwhile, and the finishing step sets
\* predictions (computed from the data of the run), sets modelTrained and
\* clears isModelTraining.
C12_TrainingTerminates ==
    /\ isModelTraining ~> ~isModelTraining
    /\ [][FinishStep =>
              /\ modelTrained'
              /\ predictions' # <<>>
              /\ \E seed \in Seeds :
                     predictions' = mockPredictions(trainData, seed)]_vars

\* C12 witness: a run on the sample data has finished although an upload
\* replaced stockData and another upload failed.
C12_Witness ==
    /\ modelTrained
    /\ ~isModelTraining
    /\ Len(predictions) = 30
    /\ stockData = UploadTable[FileGuide][0]
    /\ started = 2
    /\ readers = <<>>
    /\ uploadStatus = "error"

\* C13: every entry of predictions has a confidence in [0, 1].
C13_ConfidenceInUnitInterval ==
    \A j \in 1..Len(predictions) :
        /\ isFinite(predictions[j].confidence)
        /\ predictions[j].confidence.v >= 0
        /\ predictions[j].confidence.v <= Scale

\* C13 witness: thirty predictions whose confidences come from the largest
\* value of Math.random() (0.75 + 0.999 * 0.2, cut to 0.94).
C13_Witness ==
    /\ Len(predictions) = 30
    /\ \A j \in 1..Len(predictions) : predictions[j].confidence = Num(94)

\* predicted is close times a factor within [0.94, 1.06] (9400 and 10600 in
\* units of 1/10000).
InFactorRange(close, predicted) ==
    IF isFinite(close)
    THEN /\ isFinite(predicted)
         /\ predicted.v >= Min(TimesE4(close, 9400).v, TimesE4(close, 10600).v)
         /\ predicted.v <= Max(TimesE4(close, 9400).v, TimesE4(close, 10600).v)
    ELSE predicted = close

\* C14: when a run finishes, predictions has one entry for each of the last
\* min(30, n) records of the n-record stockData of the run, in order, with
\* the record's date, its close as actual, and predicted within 6% of it.
C14_PredictionsFromLastRecords ==
    [][FinishStep =>
           LET n == Len(trainData)
               m == Min(30, n)
           IN  /\ Len(predictions') = m
               /\ \A j \in 1..m :
                      /\ predictions'[j].date = trainData[n - m + j].date
                      /\ predictions'[j].actual = trainData[n - m + j].close
                      /\ InFactorRange(trainData[n - m + j].close,
                                       predictions'[j].predicted)]_vars

\* C14 witness: a run on the two records of the format guide's example has
\* finished (n = 2 < 30).
C14_Witness ==
    /\ modelTrained
    /\ ~isModelTraining
    /\ Len(predictions) = 2
    /\ predictions[1].actual = Num(15250)
    /\ predictions[2].actual = Num(15425)

\* A run starts: simulateModelTraining is called.
StartStep == runs' > runs

\* C25: a run keeps the stockData that was loaded when it was started,
\* whatever is uploaded meanwhile, and when it finishes the dates and
\* actual values of predictions are those of the last records of that data.
C25_PredictionsFromDataAtStart ==
    [][/\ StartStep => trainData' = stockData
       /\ (isModelTraining /\ ~FinishStep) => trainData' = trainData
       /\ FinishStep =>
             /\ Len(predictions') = Len(SliceLast(trainData, 30))
             /\ \A j \in 1..Len(predictions') :
                    /\ predictions'[j].date = SliceLast(trainData, 30)[j].date
                    /\ predictions'[j].actual
                           = SliceLast(trainData, 30)[j].close]_vars

\* The dates of the records of stockData.
StockDates == {stockData[j].date : j \in 1..Len(stockData)}

\* C25 witness: a run started on the 252 sample records has finished after
\* an upload replaced them by the two records of the format guide; no
\* prediction has the date of a record of stockData.
C25_Witness ==
    /\ modelTrained
    /\ ~isModelTraining
    /\ Len(stockData) = 2
    /\ Len(predictions) = 30
    /\ \A j \in 1..Len(predictions) : predictions[j].date \notin StockDates
    /\ predictions[30].actual # stockData[2].close

\* C26: at most one call of simulateModelTraining is in progress, it is in
\* progress exactly while isModelTraining is true, and a run starts only in
\* a state where stockData is not empty and isModelTraining is false.
C26_OneRunAtATime ==
    /\ [](runs \in {0, 1} /\ (isModelTraining <=> runs = 1))
    /\ [][StartStep => (Len(stockData) > 0 /\ ~isModelTraining)]_vars

\* C26 witness: a second run, started after the first one has finished, is
\* at its fourth stage.
C26_Witness ==
    /\ runs = 1
    /\ isModelTraining
    /\ modelTrained
    /\ trainStage = 3
    /\ trainingProgress = 60

\* C27: modelTrained implies that predictions is not empty and has at most
\* 30 entries; predictions is empty while modelTrained is false; and no step
\* sets modelTrained back to false.
C27_TrainedHasPredictions ==
    /\ [](modelTrained => (Len(predictions) >= 1 /\ Len(predictions) <= 30))
    /\ [](~modelTrained => predictions = <<>>)
    /\ [][modelTrained => modelTrained']_vars

\* C27 witness: after a run on the two records of the format guide, sample
\* data has been generated and a new run is in progress; the two predictions
\* of the first run are still there.
C27_Witness ==
    /\ modelTrained
    /\ isModelTraining
    /\ Len(predictions) = 2
    /\ Len(stockData) = Len(sampleData(0))
    /\ uploadStatus = "success"

\* The layers whose status is 'Training', and the position of the latest
\* of them in the order input, LSTM, GRU, output (0 when there is none).
TrainingLayers ==
    {k \in 1..Len(LayerIds) : LayerStatus(LayerIds[k]) = "Training"}

TrainingPosition ==
    IF TrainingLayers = {} THEN 0
    ELSE CHOOSE k \in TrainingLayers : \A l \in TrainingLayers : l <= k

\* C29: during a run at most one layer has status 'Training': none at
\* progress 0, input at 20, LSTM at 40, GRU at 60, output from 80 on, taken
\* in this order; no layer is 'Training' outside a run, and no layer is
\* 'Active' during a run.
C29_LayersTrainInOrder ==
    /\ [](/\ Cardinality(TrainingLayers) <= 1
          /\ isModelTraining =>
                /\ trainingProgress = 0 => TrainingLayers = {}
                /\ trainingProgress = 20 => TrainingLayers = {1}
                /\ trainingProgress = 40 => TrainingLayers = {2}
                /\ trainingProgress = 60 => TrainingLayers = {3}
                /\ trainingProgress >= 80 => TrainingLayers = {4}
                /\ \A k \in 1..Len(LayerIds) :
                       LayerStatus(LayerIds[k]) # "Active"
          /\ ~isModelTraining => TrainingLayers = {})
    /\ [][(isModelTraining /\ isModelTraining')
             => TrainingPosition' \in {TrainingPosition, TrainingPosition + 1}]_vars

\* C29 witness: in a second run at progress 90 the output layer is
\* 'Training' and the others, whose outputs of the first run are still
\* held, are 'Inactive'.
C29_Witness ==
    /\ activeTab = "layers"
    /\ isModelTraining
    /\ trainingProgress = 90
    /\ layerOutputs # Null
    /\ LayerStatus("output") = "Training"
    /\ LayerStatus("input") = "Inactive"
    /\ LayerStatus("lstm") = "Inactive"
    /\ LayerStatus("gru") = "Inactive"

---------------------------------------------------------------------------
(* Properties of TechnicalIndicators (specification SpecIndicators) *)

\* The closes of a price series are finite or Infinity.  a < b on closes:
CloseLess(a, b) ==
    IF isFinite(a) /\ isFinite(b) THEN a.v < b.v ELSE a # b /\ b = PosInf

\* The zero-based index at which the trailing window of w samples that ends
\* at index i starts (0 while fewer than w samples are available).
WindowStart(i, w) == Max(0, i - w + 1)

\* The zero-based indexes j of the window such that the close falls, or
\* rises, from record j - 1 to record j.
Falls(data, i, w) ==
    {j \in (WindowStart(i, w) + 1)..i :
        CloseLess(data[j + 1].close, data[j].close)}

Rises(data, i, w) ==
    {j \in (WindowStart(i, w) + 1)..i :
        CloseLess(data[j].close, data[j + 1].close)}

\* 0 <= x <= 100
InPercentRange(x) == AtLeast(x, Zero) /\ AtLeast(Hundred, x)

\* C15 (as claimed): at every indicator point RSI is 100 exactly when no
\* close falls within the trailing 14-sample window that ends at the point,
\* and otherwise lies in [0, 100].
C15_RsiRange ==
    indicators # NotRendered =>
        \A j \in 1..Len(indicators) :
            /\ indicators[j].rsi = Hundred
                   <=> Falls(stockData, j - 1, RsiWindow) = {}
            /\ Falls(stockData, j - 1, RsiWindow) # {}
                   => InPercentRange(indicators[j].rsi)

\* The sum of the closes, in units of 1/Scale, of the records a..b.
RECURSIVE SumUnits(_, _, _)
SumUnits(data, a, b) ==
    IF a > b THEN 0 ELSE data[b].close.v + SumUnits(data, a, b - 1)

\* The arithmetic mean of the w closes that end at the zero-based index i.
MeanOfLast(data, i, w) ==
    IF \E j \in (i - w + 2)..(i + 1) : data[j].close = PosInf THEN PosInf
    ELSE Rat(SumUnits(data, i - w + 2, i + 1), w * Scale)

\* The average over a window of w samples: the close while the window is
\* not full.
AverageAt(data, i, w) ==
    IF i + 1 < w THEN RatOf(data[i + 1].close) ELSE MeanOfLast(data, i, w)

\* The sum over a set of indexes j of the change of the close from record
\* j - 1 to record j, in units of 1/Scale.
RECURSIVE SumChanges(_, _)
SumChanges(data, js) ==
    IF js = {} THEN 0
    ELSE LET j == CHOOSE x \in js : TRUE
         IN  (data[j + 1].close.v - data[j].close.v)
                 + SumChanges(data, js \ {j})

FiniteStep(data, j) == isFinite(data[j].close) /\ isFinite(data[j + 1].close)

\* RSI of the 14 samples that end at index i: 100 G / (G + L) for the sum G
\* of the rises and the sum L of the falls, 100 if nothing falls; an infinite
\* rise outweighs every finite fall and an infinite fall every finite rise.
RsiOfWindow(data, i) ==
    LET falls == Falls(data, i, RsiWindow)
        rises == Rises(data, i, RsiWindow)
        hugeFall == \E j \in falls : ~FiniteStep(data, j)
        hugeRise == \E j \in rises : ~FiniteStep(data, j)
    IN  IF falls = {} THEN Hundred
        ELSE IF hugeFall /\ hugeRise THEN NaN
        ELSE IF hugeRise THEN Hundred
        ELSE IF hugeFall THEN Zero
        ELSE Rat(100 * SumChanges(data, rises),
                 SumChanges(data, rises) - SumChanges(data, falls))

C17_PlainMeans ==
    indicators # NotRendered =>
        \A j \in 1..Len(indicators) :
            /\ j >= 20 => indicators[j].sma20 = MeanOfLast(stockData, j - 1, 20)
            /\ j >= 50 => indicators[j].sma50 = MeanOfLast(stockData, j - 1, 50)
            /\ j >= 26 =>
                   indicators[j].macd = Minus(MeanOfLast(stockData, j - 1, 12),
                                              MeanOfLast(stockData, j - 1, 26))
            /\ (j >= 12 /\ j < 26) =>
                   indicators[j].macd = Minus(MeanOfLast(stockData, j - 1, 12),
                                              RatOf(stockData[j].close))

\* C17 witness: an indicator point with all windows full whose averages
\* differ from the close and from each other.
C17_Witness ==
    /\ indicators # NotRendered
    /\ Len(indicators) >= MinIndicatorData
    /\ isFinite(indicators[50].sma50)
    /\ indicators[50].sma50 # RatOf(stockData[50].close)
    /\ indicators[50].sma50 # indicators[50].sma20
    /\ isFinite(indicators[50].macd)
    /\ indicators[50].macd # Zero

\* C24: with fewer than 50 records there are no indicator points and the
\* 'Insufficient Data' message is shown; otherwise there is one indicator
\* point per record, in the order of the records, with the record's date and
\* close.
C24_OnePointPerRecord ==
    indicators # NotRendered =>
        IF Len(stockData) < 50
        THEN indicators = <<>> /\ InsufficientData(indicators)
        ELSE /\ Len(indicators) = Len(stockData)
             /\ ~InsufficientData(indicators)
             /\ \A j \in 1..Len(stockData) :
                    /\ indicators[j].date = stockData[j].date
                    /\ indicators[j].close = stockData[j].close

\* C24 witness: exactly 50 records, whose dates all differ, give 50 points.
C24_Witness ==
    /\ indicators # NotRendered
    /\ Len(stockData) = 50
    /\ Len(indicators) = 50
    /\ \A i, j \in 1..50 : stockData[i].date = stockData[j].date => i = j
    /\ indicators[1].close # indicators[50].close
    /\ indicators[50].date = stockData[50].date

---------------------------------------------------------------------------
(* Properties of PerformanceMetrics (specification SpecMetrics) *)

Computed == metrics # NotRendered /\ metrics # Null

\* C18 (as claimed): for a non-empty prediction set in which predicted equals
\* actual at every point, the R2 score is 1.
C18_PerfectFitScoresOne ==
    (/\ Computed
     /\ \A j \in 1..Len(predictions) :
            predictions[j].predicted = predictions[j].actual)
        => metrics.r2Score = One

\* -1, 0 or 1: the sign of the change of a value from a to b, in units of
\* 1/Scale.
ChangeSign(a, b) == SignInt(b.v - a.v)

\* The pairs of consecutive predictions (by the position of the second)
\* whose actual and predicted change with the same sign.
SameSignPairs(preds) ==
    {j \in 2..Len(preds) :
        ChangeSign(preds[j - 1].actual, preds[j].actual)
            = ChangeSign(preds[j - 1].predicted, preds[j].predicted)}

\* C19 (as claimed): directional accuracy is the fraction (as a percentage)
\* of the consecutive pairs in which the change of actual and the change of
\* predicted have the same sign: positive, zero or negative.
C19_DirectionBySign ==
    (Computed /\ Len(predictions) >= 2)
        => metrics.directionalAccuracy
               = Rat(100 * Cardinality(SameSignPairs(predictions)),
                     Len(predictions) - 1)

\* C20: for a prediction set of length 1 the directional accuracy is not a
\* number (0 / 0) or is 0.
C20_SinglePointDirection ==
    (Computed /\ Len(predictions) = 1)
        => \/ isNaN(metrics.directionalAccuracy)
           \/ metrics.directionalAccuracy = Zero

\* C20 witness: the metrics of a single prediction, whose error is not zero.
C20_Witness ==
    /\ Computed
    /\ Len(predictions) = 1
    /\ metrics.totalPredictions = 1
    /\ metrics.mae = Rat(1, 2)
    /\ isNaN(metrics.directionalAccuracy)

\* x === y for doubles
SameDouble(x, y) == ~isNaN(x) /\ x = y

\* C21 (as claimed): for a non-empty prediction set, rmse * rmse equals mse.
C21_RmseSquaredIsMse ==
    Computed
        => SameDouble(TimesDouble(metrics.rmse, metrics.rmse),
                      DoubleOf(metrics.mse))

\* a - 1, for a > 0
RECURSIVE BigPred(_)
BigPred(a) ==
    IF a[1] > 0 THEN TrimZeros(<<a[1] - 1>> \o SubSeq(a, 2, Len(a)))
    ELSE <<LimbBase - 1>> \o BigPred(SubSeq(a, 2, Len(a)))

\* a * 2^(ea) <= b * 2^(eb)
ScaledAtMost(a, ea, b, eb) ==
    IF ea >= eb THEN BigCmp(BigShl(a, ea - eb), b) <= 0
    ELSE BigCmp(a, BigShl(b, eb - ea)) <= 0

\* r is within half a unit in the last place of the square root of x:
\* ((2 m_r - 1) * 2^(e_r - 1))^2 <= x <= ((2 m_r + 1) * 2^(e_r - 1))^2.
NearestSqrt(r, x) ==
    /\ r.k = "dbl"
    /\ BigBits(r.m) = SignificandBits
    /\ ScaledAtMost(BigMul(BigPred(BigShl(r.m, 1)), BigPred(BigShl(r.m, 1))),
                    2 * r.e - 2, x.m, x.e)
    /\ ScaledAtMost(x.m, x.e,
                    BigMul(BigAdd(BigShl(r.m, 1), <<1>>),
                           BigAdd(BigShl(r.m, 1), <<1>>)),
                    2 * r.e - 2)

\* |p - x| <= x * 2^(-51), for natural numbers p and x
CloseTo(p, x) ==
    /\ BigCmp(BigShl(p, 51), BigAdd(BigShl(x, 51), x)) <= 0
    /\ BigCmp(BigShl(x, 51), BigAdd(BigShl(p, 51), x)) <= 0

\* The same for doubles p and x, brought to the lower of their exponents.
WithinRounding(p, x) ==
    /\ p.k = "dbl"
    /\ CloseTo(BigShl(p.m, p.e - Min(p.e, x.e)),
               BigShl(x.m, x.e - Min(p.e, x.e)))

\* C21 (amended): rmse is 0 when mse is 0 and otherwise the double nearest
\* to the square root of mse; rmse * rmse then differs from mse by at most
\* mse * 2^(-51).
C21_RmseIsNearestSqrt ==
    Computed
        => IF metrics.mse = Zero THEN metrics.rmse = Zero
           ELSE /\ NearestSqrt(metrics.rmse, DoubleOf(metrics.mse))
                /\ WithinRounding(TimesDouble(metrics.rmse, metrics.rmse),
                                  DoubleOf(metrics.mse))

\* C21 witness: errors 0.50 and 0 give mse 0.125, rmse 0.3535533905932738
\* (0x16A09E667F3BCD * 2^(-54)) and rmse * rmse = 0.12500000000000003.
C21_Witness ==
    /\ Computed
    /\ Len(predictions) = 2
    /\ metrics.mse = Rat(1, 8)
    /\ metrics.rmse = Dbl(<<15309, 19710, 633, 181>>, -54)
    /\ TimesDouble(metrics.rmse, metrics.rmse) = Dbl(<<1, 0, 0, 128>>, -55)

---------------------------------------------------------------------------
(* Properties of Recommendations (specification SpecRecommend) *)

Recommends == recommendation # NotRendered /\ recommendation # Null

\* The current close and the latest predicted value, in units of 1/Scale
\* (both are finite in the states of SpecRecommend).
CloseNow == stockData[Len(stockData)].close.v
PredictedNext == predictions[Len(predictions)].predicted.v

\* The predicted percent change is above (below) t / 10 percent:
\* 100 * (PredictedNext - CloseNow) / CloseNow > t / 10, with the division
\* by a close of 0 giving an infinity or, for 0 / 0, no number.
PercentAbove(t) ==
    IF CloseNow > 0 THEN 1000 * (PredictedNext - CloseNow) > t * CloseNow
    ELSE IF CloseNow < 0 THEN 1000 * (PredictedNext - CloseNow) < t * CloseNow
    ELSE PredictedNext > 0

PercentBelow(t) ==
    IF CloseNow > 0 THEN 1000 * (PredictedNext - CloseNow) < t * CloseNow
    ELSE IF CloseNow < 0 THEN 1000 * (PredictedNext - CloseNow) > t * CloseNow
    ELSE PredictedNext < 0

\* The last three predictions, and ten times the share of the steps between
\* them in which predicted rises (5 when there is no step).
LastThree == SliceLast(predictions, 3)

TrendTimes10 ==
    IF Len(LastThree) = 1 THEN 5
    ELSE (10 * Cardinality({i \in 2..Len(LastThree) :
                               LastThree[i].predicted.v
                                   > LastThree[i - 1].predicted.v}))
         \div (Len(LastThree) - 1)

RECURSIVE SumConfidence(_)
SumConfidence(n) ==
    IF n = 0 THEN 0 ELSE SumConfidence(n - 1) + LastThree[n].confidence.v

\* The average confidence of the last three predictions is above c / Scale.
AverageAbove(c) == SumConfidence(Len(LastThree)) > c * Len(LastThree)

LatestAbove(c) == predictions[Len(predictions)].confidence.v > c

\* The close has risen over the last five records.
RisingClose ==
    CloseNow > stockData[Max(1, Len(stockData) - 4)].close.v

\* The conditions of the six rules, in the order in which they are tried.
RuleHolds(i) ==
    IF i = 1 THEN PercentAbove(15) /\ TrendTimes10 >= 5 /\ LatestAbove(70)
    ELSE IF i = 2
    THEN PercentBelow(-15) /\ TrendTimes10 <= 5 /\ LatestAbove(70)
    ELSE IF i = 3 THEN PercentAbove(8) /\ RisingClose /\ AverageAbove(75)
    ELSE IF i = 4 THEN PercentBelow(-8) /\ ~RisingClose /\ AverageAbove(75)
    ELSE IF i = 5 THEN PercentAbove(3) /\ TrendTimes10 > 6
    ELSE IF i = 6 THEN PercentBelow(-3) /\ TrendTimes10 < 4
    ELSE TRUE

FirstRule == CHOOSE i \in 1..7 : RuleHolds(i) /\ \A j \in 1..(i - 1) : ~RuleHolds(j)

\* C22: the action is BUY only if the predicted percent change is above
\* 0.3, SELL only if it is below -0.3, and HOLD whenever it is a number of
\* magnitude at most 0.3; the first rule, in the order 1.5, -1.5, 0.8, -0.8,
\* 0.3, -0.3, whose conditions hold decides the action and the reason.
C22_FirstRuleDecides ==
    Recommends =>
        /\ recommendation.action = "BUY" => PercentAbove(3)
        /\ recommendation.action = "SELL" => PercentBelow(-3)
        /\ (/\ ~PercentAbove(3)
            /\ ~PercentBelow(-3)
            /\ ~(CloseNow = 0 /\ PredictedNext = 0))
               => recommendation.action = "HOLD"
        /\ recommendation.action = ActionOf(FirstRule)
        /\ recommendation.reason = ReasonOf(FirstRule)

\* C22 witness: a predicted gain of 1% with a rising close and a rising
\* trend satisfies the third and the fifth rule; the third one decides.
C22_Witness ==
    /\ Recommends
    /\ RuleHolds(3)
    /\ RuleHolds(5)
    /\ ~RuleHolds(1)
    /\ recommendation.priceChangePercent = One
    /\ recommendation.action = "BUY"
    /\ recommendation.reason = "Positive momentum detected"
    /\ recommendation.confidence = Rat(8, 10)

\* The offsets of targetPrice and stopLoss from currentPrice.
TargetOffset(r) == Minus(r.targetPrice, r.currentPrice)
StopOffset(r) == Minus(r.stopLoss, r.currentPrice)

\* predictions with the latest predicted change from the current close
\* doubled, and the recommendation made from them.
DoubledPredictions ==
    [predictions EXCEPT ![Len(predictions)].predicted =
        Num(CloseNow + 2 * (PredictedNext - CloseNow))]

Doubled == Recommendation(stockData, DoubledPredictions)

Twice(x) == Times(Rat(2, 1), x)

\* Both recommendations are BUY or SELL and the doubled change is twice the
\* change, which is a number.
DoublingApplies ==
    /\ Recommends
    /\ recommendation.action # "HOLD"
    /\ Doubled.action = recommendation.action
    /\ isFinite(recommendation.priceChangePercent)
    /\ Doubled.priceChangePercent = Twice(recommendation.priceChangePercent)

\* C23 (as claimed): for BUY and SELL, doubling the magnitude of the
\* predicted percent change doubles the offset of targetPrice and the offset
\* of stopLoss from currentPrice.
C23_OffsetsProportional ==
    DoublingApplies =>
        /\ TargetOffset(Doubled) = Twice(TargetOffset(recommendation))
        /\ StopOffset(Doubled) = Twice(StopOffset(recommendation))

\* 1 for BUY, -1 for SELL
Direction(r) == IF r.action = "BUY" THEN Rat(1, 1) ELSE Rat(-1, 1)

\* C23 (amended): for BUY and SELL with a percent change p that is a number,
\* the target offset is currentPrice * max(0.03, 0.015 |p|) and the stop
\* offset is currentPrice * min(0.03, 0.01 |p|), towards the target for the
\* first and away from it for the second; so doubling |p| doubles the target
\* offset only from |p| = 2 on and the stop offset only up to |p| = 1.5.
C23_OffsetsFlooredAndCapped ==
    (/\ Recommends
     /\ recommendation.action # "HOLD"
     /\ isFinite(recommendation.priceChangePercent))
        => /\ TargetOffset(recommendation)
                = Times(Times(Direction(recommendation),
                              recommendation.currentPrice),
                        MathMax(Rat(3, 100),
                                Times(Rat(15, 1000),
                                      Abs(recommendation.priceChangePercent))))
           /\ StopOffset(recommendation)
                = Times(Times(Opposite(Direction(recommendation)),
                              recommendation.currentPrice),
                        MathMin(Rat(3, 100),
                                Times(Rat(1, 100),
                                      Abs(recommendation.priceChangePercent))))
           /\ (/\ DoublingApplies
               /\ AtLeast(Abs(recommendation.priceChangePercent), Rat(2, 1)))
                  => TargetOffset(Doubled)
                         = Twice(TargetOffset(recommendation))
           /\ (/\ DoublingApplies
               /\ AtLeast(Rat(15, 10), Abs(recommendation.priceChangePercent)))
                  => StopOffset(Doubled) = Twice(StopOffset(recommendation))

\* C23 witness: a BUY at 100.00 for a predicted gain of 2% has target 103.00
\* and stop 98.00; for 4% they are 106.00 and 97.00.
C23_Witness ==
    /\ DoublingApplies
    /\ recommendation.action = "BUY"
    /\ recommendation.priceChangePercent = Rat(2, 1)
    /\ recommendation.targetPrice = Rat(103, 1)
    /\ recommendation.stopLoss = Rat(98, 1)
    /\ Doubled.targetPrice = Rat(106, 1)
    /\ Doubled.stopLoss = Rat(97, 1)

\* C28: with a positive current price, BUY has
\* stopLoss < currentPrice < targetPrice, SELL has
\* targetPrice < currentPrice < stopLoss, and HOLD has both equal to
\* currentPrice.
C28_TargetAndStopSides ==
    (Recommends /\ IsPositive(recommendation.currentPrice)) =>
        /\ recommendation.action = "BUY"
              => /\ Greater(recommendation.currentPrice,
                            recommendation.stopLoss)
                 /\ Greater(recommendation.targetPrice,
                            recommendation.currentPrice)
        /\ recommendation.action = "SELL"
              => /\ Greater(recommendation.currentPrice,
                            recommendation.targetPrice)
                 /\ Greater(recommendation.stopLoss,
                            recommendation.currentPrice)
        /\ recommendation.action = "HOLD"
              => /\ recommendation.targetPrice = recommendation.currentPrice
                 /\ recommendation.stopLoss = recommendation.currentPrice

\* C28 witness: a SELL at 100.00 for a predicted fall of 1%, with target
\* 97.00 and stop 101.00.
C28_Witness ==
    /\ Recommends
    /\ recommendation.action = "SELL"
    /\ recommendation.currentPrice = Rat(100, 1)
    /\ recommendation.priceChangePercent = Rat(-1, 1)
    /\ recommendation.targetPrice = Rat(97, 1)
    /\ recommendation.stopLoss = Rat(101, 1)

InUnitInterval(x) == AtLeast(x, Zero) /\ AtLeast(One, x)

\* C30: when stockData and predictions are not empty and every confidence
\* of predictions is in [0, 1], the confidence of the recommendation is in
\* [0, 1], at most 0.95 for a BUY of the first rule and at most 0.9 for a
\* SELL of the second rule.
C30_ConfidenceInUnitInterval ==
    (/\ Recommends
     /\ \A j \in 1..Len(predictions) :
            InUnitInterval(RatOf(predictions[j].confidence)))
        => /\ InUnitInterval(recommendation.confidence)
           /\ recommendation.reason = ReasonOf(1)
                 => AtLeast(Rat(95, 100), recommendation.confidence)
           /\ recommendation.reason = ReasonOf(2)
                 => AtLeast(Rat(9, 10), recommendation.confidence)

\* C30 witness: a BUY of the first rule from one prediction of confidence 1,
\* whose 0.9 * 1 + 0.1 is cut to 0.95.
C30_Witness ==
    /\ Recommends
    /\ Len(predictions) = 1
    /\ predictions[1].confidence = Num(100)
    /\ recommendation.reason = "Upward trend predicted"
    /\ recommendation.action = "BUY"
    /\ recommendation.confidence = Rat(95, 100)

====
